---- MODULE Spec2Model ----
(***************************************************************************)
(* A model of the built-in query module of Greynir                         *)
(* (src/queries/builtin.py): the person-name canonicalizer                 *)
(* name_key_to_update, the mention aggregator append_names, the name and   *)
(* entity register builder, and the query dispatcher sentence().           *)
(*                                                                         *)
(* Python strings are sequences of Unicode code points, so that            *)
(* str.split, str.lower, str.capitalize, str.startswith, str.endswith and  *)
(* slicing are computed and not assumed; a text is written as its code     *)
(* points with the text in a comment above it, a letter outside ASCII as   *)
(* Python's ascii() writes it.  Python dictionaries are                    *)
(* sequences of [key, val] records in insertion order, which is the order  *)
(* `for k in register.keys()` scans.                                       *)
(***************************************************************************)
EXTENDS Integers, Sequences, FiniteSets, TLC

VARIABLES
    rd,        \* append_names: the result dictionary { name: { uuid: ai } }
    nk,        \* append_names: the last name_key_to_update call and its effect
    nrows,     \* append_names: number of query rows consumed so far
    register,  \* create_name_register: the name register
    rc,        \* create_name_register: the last add_*_to_register call
    ntokens,   \* create_name_register: number of tokens consumed so far
    qs,        \* sentence(): the last dispatch, its inputs and what it did
    query,     \* append_answers: the rows of the query q
    seen,      \* append_*: the article descriptors of the rows consumed, in order
    resp,      \* make_response_list: what the call computed and returned
    wq,        \* query_word: the last call, its inputs and what it did
    dw,        \* declension_answer_for_word: the last call and what it did
    corpus,    \* gencorp.main: the export in progress
    ls         \* launch_search: the last call, its inputs and its outcome

vars ==
    <<rd, nk, nrows, register, rc, ntokens, qs, query, seen, resp, wq, dw, corpus,
      ls>>

-----------------------------------------------------------------------------
(* Bounds of the model *)

\* Number of query rows append_names consumes in one run
MaxRows == 3
\* Number of tokens create_name_register consumes in one run
MaxTokens == 3
\* Largest number of search stems of a query / weights the service returns
MaxTerms == 2

-----------------------------------------------------------------------------
(* Python string and list primitives *)

\* s.endswith(".") followed by s[:-1]
StripDot(s) ==
    IF Len(s) > 0 /\ s[Len(s)] = 46 THEN SubSeq(s, 1, Len(s) - 1) ELSE s

\* a.startswith(b)
StartsWith(a, b) ==
    Len(b) <= Len(a) /\ SubSeq(a, 1, Len(b)) = b

\* The characters that str.split() and str.isspace() take for whitespace:
\* tab to carriage return, the separators U+001C to U+001F, space, U+0085,
\* the no-break space U+00A0, U+1680, U+2000 to U+200A, U+2028, U+2029,
\* U+202F, U+205F and U+3000
Whitespace ==
    (9..13) \cup (28..32) \cup {133, 160, 5760} \cup (8192..8202)
        \cup {8232, 8233, 8239, 8287, 12288}

\* c.isspace()
IsSpace(c) == c \in Whitespace

\* s.split(): the maximal runs of non-whitespace characters of s, in order
RECURSIVE SplitFrom(_, _, _, _)
SplitFrom(s, i, cur, acc) ==
    IF i > Len(s)
    THEN IF cur = <<>> THEN acc ELSE Append(acc, cur)
    ELSE IF IsSpace(s[i])
         THEN SplitFrom(s, i + 1, <<>>, IF cur = <<>> THEN acc ELSE Append(acc, cur))
         ELSE SplitFrom(s, i + 1, Append(cur, s[i]), acc)

Split(s) == SplitFrom(s, 1, <<>>, <<>>)

\* sep.join(parts)
RECURSIVE JoinWith(_, _)
JoinWith(sep, parts) ==
    IF parts = <<>> THEN <<>>
    ELSE IF Len(parts) = 1 THEN parts[1]
    ELSE parts[1] \o sep \o JoinWith(sep, Tail(parts))

\* " " in name
HasSpace(name) == \E i \in 1..Len(name) : name[i] = 32

\* parts[1:-1]
Middle(parts) == SubSeq(parts, 2, Len(parts) - 1)

\* parts[-1]
LastOf(parts) == parts[Len(parts)]

-----------------------------------------------------------------------------
(* Python case conversion: str.lower() and str.capitalize() *)

\* The simple lowercase mappings of the Unicode database that str.lower()
\* applies, as runs <<first, last, step, delta>>: the characters first,
\* first + step, ..., last lower to themselves plus delta
LowerRuns ==
    { <<65, 90, 1, 32>>, <<192, 214, 1, 32>>, <<216, 222, 1, 32>>, <<256,
      302, 2, 1>>, <<306, 310, 2, 1>>, <<313, 327, 2, 1>>, <<330, 374, 2,
      1>>, <<376, 376, 1, -121>>, <<377, 381, 2, 1>>, <<385, 385, 1, 210>>,
      <<386, 388, 2, 1>>, <<390, 390, 1, 206>>, <<391, 391, 1, 1>>, <<393,
      394, 1, 205>>, <<395, 395, 1, 1>>, <<398, 398, 1, 79>>, <<399, 399, 1,
      202>>, <<400, 400, 1, 203>>, <<401, 401, 1, 1>>, <<403, 403, 1, 205>>,
      <<404, 404, 1, 207>>, <<406, 406, 1, 211>>, <<407, 407, 1, 209>>,
      <<408, 408, 1, 1>>, <<412, 412, 1, 211>>, <<413, 413, 1, 213>>, <<415,
      415, 1, 214>>, <<416, 420, 2, 1>>, <<422, 422, 1, 218>>, <<423, 423, 1,
      1>>, <<425, 425, 1, 218>>, <<428, 428, 1, 1>>, <<430, 430, 1, 218>>,
      <<431, 431, 1, 1>>, <<433, 434, 1, 217>>, <<435, 437, 2, 1>>, <<439,
      439, 1, 219>>, <<440, 440, 1, 1>>, <<444, 444, 1, 1>>, <<452, 452, 1,
      2>>, <<453, 453, 1, 1>>, <<455, 455, 1, 2>>, <<456, 456, 1, 1>>, <<458,
      458, 1, 2>>, <<459, 475, 2, 1>>, <<478, 494, 2, 1>>, <<497, 497, 1,
      2>>, <<498, 500, 2, 1>>, <<502, 502, 1, -97>>, <<503, 503, 1, -56>>,
      <<504, 542, 2, 1>>, <<544, 544, 1, -130>>, <<546, 562, 2, 1>>, <<570,
      570, 1, 10795>>, <<571, 571, 1, 1>>, <<573, 573, 1, -163>>, <<574, 574,
      1, 10792>>, <<577, 577, 1, 1>>, <<579, 579, 1, -195>>, <<580, 580, 1,
      69>>, <<581, 581, 1, 71>>, <<582, 590, 2, 1>>, <<880, 882, 2, 1>>,
      <<886, 886, 1, 1>>, <<895, 895, 1, 116>>, <<902, 902, 1, 38>>, <<904,
      906, 1, 37>>, <<908, 908, 1, 64>>, <<910, 911, 1, 63>>, <<913, 929, 1,
      32>>, <<931, 939, 1, 32>>, <<975, 975, 1, 8>>, <<984, 1006, 2, 1>>,
      <<1012, 1012, 1, -60>>, <<1015, 1015, 1, 1>>, <<1017, 1017, 1, -7>>,
      <<1018, 1018, 1, 1>>, <<1021, 1023, 1, -130>>, <<1024, 1039, 1, 80>>,
      <<1040, 1071, 1, 32>>, <<1120, 1152, 2, 1>>, <<1162, 1214, 2, 1>>,
      <<1216, 1216, 1, 15>>, <<1217, 1229, 2, 1>>, <<1232, 1326, 2, 1>>,
      <<1329, 1366, 1, 48>>, <<4256, 4293, 1, 7264>>, <<4295, 4295, 1,
      7264>>, <<4301, 4301, 1, 7264>>, <<5024, 5103, 1, 38864>>, <<5104,
      5109, 1, 8>>, <<7312, 7354, 1, -3008>>, <<7357, 7359, 1, -3008>>,
      <<7680, 7828, 2, 1>>, <<7838, 7838, 1, -7615>>, <<7840, 7934, 2, 1>>,
      <<7944, 7951, 1, -8>>, <<7960, 7965, 1, -8>>, <<7976, 7983, 1, -8>>,
      <<7992, 7999, 1, -8>>, <<8008, 8013, 1, -8>>, <<8025, 8031, 2, -8>>,
      <<8040, 8047, 1, -8>>, <<8072, 8079, 1, -8>>, <<8088, 8095, 1, -8>>,
      <<8104, 8111, 1, -8>>, <<8120, 8121, 1, -8>>, <<8122, 8123, 1, -74>>,
      <<8124, 8124, 1, -9>>, <<8136, 8139, 1, -86>>, <<8140, 8140, 1, -9>>,
      <<8152, 8153, 1, -8>>, <<8154, 8155, 1, -100>>, <<8168, 8169, 1, -8>>,
      <<8170, 8171, 1, -112>>, <<8172, 8172, 1, -7>>, <<8184, 8185, 1,
      -128>>, <<8186, 8187, 1, -126>>, <<8188, 8188, 1, -9>>, <<8486, 8486,
      1, -7517>>, <<8490, 8490, 1, -8383>>, <<8491, 8491, 1, -8262>>, <<8498,
      8498, 1, 28>>, <<8544, 8559, 1, 16>>, <<8579, 8579, 1, 1>>, <<9398,
      9423, 1, 26>>, <<11264, 11311, 1, 48>>, <<11360, 11360, 1, 1>>,
      <<11362, 11362, 1, -10743>>, <<11363, 11363, 1, -3814>>, <<11364,
      11364, 1, -10727>>, <<11367, 11371, 2, 1>>, <<11373, 11373, 1,
      -10780>>, <<11374, 11374, 1, -10749>>, <<11375, 11375, 1, -10783>>,
      <<11376, 11376, 1, -10782>>, <<11378, 11378, 1, 1>>, <<11381, 11381, 1,
      1>>, <<11390, 11391, 1, -10815>>, <<11392, 11490, 2, 1>>, <<11499,
      11501, 2, 1>>, <<11506, 11506, 1, 1>>, <<42560, 42604, 2, 1>>, <<42624,
      42650, 2, 1>>, <<42786, 42798, 2, 1>>, <<42802, 42862, 2, 1>>, <<42873,
      42875, 2, 1>>, <<42877, 42877, 1, -35332>>, <<42878, 42886, 2, 1>>,
      <<42891, 42891, 1, 1>>, <<42893, 42893, 1, -42280>>, <<42896, 42898, 2,
      1>>, <<42902, 42920, 2, 1>>, <<42922, 42922, 1, -42308>>, <<42923,
      42923, 1, -42319>>, <<42924, 42924, 1, -42315>>, <<42925, 42925, 1,
      -42305>>, <<42926, 42926, 1, -42308>>, <<42928, 42928, 1, -42258>>,
      <<42929, 42929, 1, -42282>>, <<42930, 42930, 1, -42261>>, <<42931,
      42931, 1, 928>>, <<42932, 42946, 2, 1>>, <<42948, 42948, 1, -48>>,
      <<42949, 42949, 1, -42307>>, <<42950, 42950, 1, -35384>>, <<42951,
      42953, 2, 1>>, <<42960, 42960, 1, 1>>, <<42966, 42968, 2, 1>>, <<42997,
      42997, 1, 1>>, <<65313, 65338, 1, 32>>, <<66560, 66599, 1, 40>>,
      <<66736, 66771, 1, 40>>, <<66928, 66964, 2, 39>>, <<66929, 66937, 2,
      39>>, <<66941, 66953, 2, 39>>, <<66957, 66961, 2, 39>>, <<66965, 66965,
      1, 39>>, <<68736, 68786, 1, 64>>, <<71840, 71871, 1, 32>>, <<93760,
      93791, 1, 32>>, <<125184, 125217, 1, 34>> }

\* The simple titlecase mappings that str.capitalize() applies to the first
\* character, as runs <<first, last, step, delta>>
TitleRuns ==
    { <<97, 122, 1, -32>>, <<181, 181, 1, 743>>, <<224, 246, 1, -32>>, <<248,
      254, 1, -32>>, <<255, 255, 1, 121>>, <<257, 303, 2, -1>>, <<305, 305,
      1, -232>>, <<307, 311, 2, -1>>, <<314, 328, 2, -1>>, <<331, 375, 2,
      -1>>, <<378, 382, 2, -1>>, <<383, 383, 1, -300>>, <<384, 384, 1, 195>>,
      <<387, 389, 2, -1>>, <<392, 392, 1, -1>>, <<396, 396, 1, -1>>, <<402,
      402, 1, -1>>, <<405, 405, 1, 97>>, <<409, 409, 1, -1>>, <<410, 410, 1,
      163>>, <<414, 414, 1, 130>>, <<417, 421, 2, -1>>, <<424, 424, 1, -1>>,
      <<429, 429, 1, -1>>, <<432, 432, 1, -1>>, <<436, 438, 2, -1>>, <<441,
      441, 1, -1>>, <<445, 445, 1, -1>>, <<447, 447, 1, 56>>, <<452, 452, 1,
      1>>, <<454, 454, 1, -1>>, <<455, 455, 1, 1>>, <<457, 457, 1, -1>>,
      <<458, 458, 1, 1>>, <<460, 476, 2, -1>>, <<477, 477, 1, -79>>, <<479,
      495, 2, -1>>, <<497, 497, 1, 1>>, <<499, 501, 2, -1>>, <<505, 543, 2,
      -1>>, <<547, 563, 2, -1>>, <<572, 572, 1, -1>>, <<575, 576, 1, 10815>>,
      <<578, 578, 1, -1>>, <<583, 591, 2, -1>>, <<592, 592, 1, 10783>>,
      <<593, 593, 1, 10780>>, <<594, 594, 1, 10782>>, <<595, 595, 1, -210>>,
      <<596, 596, 1, -206>>, <<598, 599, 1, -205>>, <<601, 601, 1, -202>>,
      <<603, 603, 1, -203>>, <<604, 604, 1, 42319>>, <<608, 608, 1, -205>>,
      <<609, 609, 1, 42315>>, <<611, 611, 1, -207>>, <<613, 613, 1, 42280>>,
      <<614, 614, 1, 42308>>, <<616, 616, 1, -209>>, <<617, 617, 1, -211>>,
      <<618, 618, 1, 42308>>, <<619, 619, 1, 10743>>, <<620, 620, 1, 42305>>,
      <<623, 623, 1, -211>>, <<625, 625, 1, 10749>>, <<626, 626, 1, -213>>,
      <<629, 629, 1, -214>>, <<637, 637, 1, 10727>>, <<640, 640, 1, -218>>,
      <<642, 642, 1, 42307>>, <<643, 643, 1, -218>>, <<647, 647, 1, 42282>>,
      <<648, 648, 1, -218>>, <<649, 649, 1, -69>>, <<650, 651, 1, -217>>,
      <<652, 652, 1, -71>>, <<658, 658, 1, -219>>, <<669, 669, 1, 42261>>,
      <<670, 670, 1, 42258>>, <<837, 837, 1, 84>>, <<881, 883, 2, -1>>,
      <<887, 887, 1, -1>>, <<891, 893, 1, 130>>, <<940, 940, 1, -38>>, <<941,
      943, 1, -37>>, <<945, 961, 1, -32>>, <<962, 962, 1, -31>>, <<963, 971,
      1, -32>>, <<972, 972, 1, -64>>, <<973, 974, 1, -63>>, <<976, 976, 1,
      -62>>, <<977, 977, 1, -57>>, <<981, 981, 1, -47>>, <<982, 982, 1,
      -54>>, <<983, 983, 1, -8>>, <<985, 1007, 2, -1>>, <<1008, 1008, 1,
      -86>>, <<1009, 1009, 1, -80>>, <<1010, 1010, 1, 7>>, <<1011, 1011, 1,
      -116>>, <<1013, 1013, 1, -96>>, <<1016, 1016, 1, -1>>, <<1019, 1019, 1,
      -1>>, <<1072, 1103, 1, -32>>, <<1104, 1119, 1, -80>>, <<1121, 1153, 2,
      -1>>, <<1163, 1215, 2, -1>>, <<1218, 1230, 2, -1>>, <<1231, 1231, 1,
      -15>>, <<1233, 1327, 2, -1>>, <<1377, 1414, 1, -48>>, <<5112, 5117, 1,
      -8>>, <<7296, 7296, 1, -6254>>, <<7297, 7297, 1, -6253>>, <<7298, 7298,
      1, -6244>>, <<7299, 7300, 1, -6242>>, <<7301, 7301, 1, -6243>>, <<7302,
      7302, 1, -6236>>, <<7303, 7303, 1, -6181>>, <<7304, 7304, 1, 35266>>,
      <<7545, 7545, 1, 35332>>, <<7549, 7549, 1, 3814>>, <<7566, 7566, 1,
      35384>>, <<7681, 7829, 2, -1>>, <<7835, 7835, 1, -59>>, <<7841, 7935,
      2, -1>>, <<7936, 7943, 1, 8>>, <<7952, 7957, 1, 8>>, <<7968, 7975, 1,
      8>>, <<7984, 7991, 1, 8>>, <<8000, 8005, 1, 8>>, <<8017, 8023, 2, 8>>,
      <<8032, 8039, 1, 8>>, <<8048, 8049, 1, 74>>, <<8050, 8053, 1, 86>>,
      <<8054, 8055, 1, 100>>, <<8056, 8057, 1, 128>>, <<8058, 8059, 1, 112>>,
      <<8060, 8061, 1, 126>>, <<8064, 8071, 1, 8>>, <<8080, 8087, 1, 8>>,
      <<8096, 8103, 1, 8>>, <<8112, 8113, 1, 8>>, <<8115, 8115, 1, 9>>,
      <<8126, 8126, 1, -7205>>, <<8131, 8131, 1, 9>>, <<8144, 8145, 1, 8>>,
      <<8160, 8161, 1, 8>>, <<8165, 8165, 1, 7>>, <<8179, 8179, 1, 9>>,
      <<8526, 8526, 1, -28>>, <<8560, 8575, 1, -16>>, <<8580, 8580, 1, -1>>,
      <<9424, 9449, 1, -26>>, <<11312, 11359, 1, -48>>, <<11361, 11361, 1,
      -1>>, <<11365, 11365, 1, -10795>>, <<11366, 11366, 1, -10792>>,
      <<11368, 11372, 2, -1>>, <<11379, 11379, 1, -1>>, <<11382, 11382, 1,
      -1>>, <<11393, 11491, 2, -1>>, <<11500, 11502, 2, -1>>, <<11507, 11507,
      1, -1>>, <<11520, 11557, 1, -7264>>, <<11559, 11559, 1, -7264>>,
      <<11565, 11565, 1, -7264>>, <<42561, 42605, 2, -1>>, <<42625, 42651, 2,
      -1>>, <<42787, 42799, 2, -1>>, <<42803, 42863, 2, -1>>, <<42874, 42876,
      2, -1>>, <<42879, 42887, 2, -1>>, <<42892, 42892, 1, -1>>, <<42897,
      42899, 2, -1>>, <<42900, 42900, 1, 48>>, <<42903, 42921, 2, -1>>,
      <<42933, 42947, 2, -1>>, <<42952, 42954, 2, -1>>, <<42961, 42961, 1,
      -1>>, <<42967, 42969, 2, -1>>, <<42998, 42998, 1, -1>>, <<43859, 43859,
      1, -928>>, <<43888, 43967, 1, -38864>>, <<65345, 65370, 1, -32>>,
      <<66600, 66639, 1, -40>>, <<66776, 66811, 1, -40>>, <<66967, 67003, 2,
      -39>>, <<66968, 66976, 2, -39>>, <<66980, 66992, 2, -39>>, <<66996,
      67000, 2, -39>>, <<67004, 67004, 1, -39>>, <<68800, 68850, 1, -64>>,
      <<71872, 71903, 1, -32>>, <<93792, 93823, 1, -32>>, <<125218, 125251,
      1, -34>> }

\* The characters whose titlecase is more than one character, each with it
TitleSpecial ==
    { <<223, <<83, 115>>>>, <<329, <<700, 78>>>>, <<496, <<74, 780>>>>,
      <<912, <<921, 776, 769>>>>, <<944, <<933, 776, 769>>>>, <<1415, <<1333,
      1410>>>>, <<7830, <<72, 817>>>>, <<7831, <<84, 776>>>>, <<7832, <<87,
      778>>>>, <<7833, <<89, 778>>>>, <<7834, <<65, 702>>>>, <<8016, <<933,
      787>>>>, <<8018, <<933, 787, 768>>>>, <<8020, <<933, 787, 769>>>>,
      <<8022, <<933, 787, 834>>>>, <<8114, <<8122, 837>>>>, <<8116, <<902,
      837>>>>, <<8118, <<913, 834>>>>, <<8119, <<913, 834, 837>>>>, <<8130,
      <<8138, 837>>>>, <<8132, <<905, 837>>>>, <<8134, <<919, 834>>>>,
      <<8135, <<919, 834, 837>>>>, <<8146, <<921, 776, 768>>>>, <<8147,
      <<921, 776, 769>>>>, <<8150, <<921, 834>>>>, <<8151, <<921, 776,
      834>>>>, <<8162, <<933, 776, 768>>>>, <<8163, <<933, 776, 769>>>>,
      <<8164, <<929, 787>>>>, <<8166, <<933, 834>>>>, <<8167, <<933, 776,
      834>>>>, <<8178, <<8186, 837>>>>, <<8180, <<911, 837>>>>, <<8182,
      <<937, 834>>>>, <<8183, <<937, 834, 837>>>>, <<64256, <<70, 102>>>>,
      <<64257, <<70, 105>>>>, <<64258, <<70, 108>>>>, <<64259, <<70, 102,
      105>>>>, <<64260, <<70, 102, 108>>>>, <<64261, <<83, 116>>>>, <<64262,
      <<83, 116>>>>, <<64275, <<1348, 1398>>>>, <<64276, <<1348, 1381>>>>,
      <<64277, <<1348, 1387>>>>, <<64278, <<1358, 1398>>>>, <<64279, <<1348,
      1389>>>> }

\* The ranges <<first, last>> of the case-ignorable characters
CaseIgnorable ==
    { <<39, 39>>, <<46, 46>>, <<58, 58>>, <<94, 94>>, <<96, 96>>, <<168,
      168>>, <<173, 173>>, <<175, 175>>, <<180, 180>>, <<183, 184>>, <<688,
      879>>, <<884, 885>>, <<890, 890>>, <<900, 901>>, <<903, 903>>, <<1155,
      1161>>, <<1369, 1369>>, <<1375, 1375>>, <<1425, 1469>>, <<1471, 1471>>,
      <<1473, 1474>>, <<1476, 1477>>, <<1479, 1479>>, <<1524, 1524>>, <<1536,
      1541>>, <<1552, 1562>>, <<1564, 1564>>, <<1600, 1600>>, <<1611, 1631>>,
      <<1648, 1648>>, <<1750, 1757>>, <<1759, 1768>>, <<1770, 1773>>, <<1807,
      1807>>, <<1809, 1809>>, <<1840, 1866>>, <<1958, 1968>>, <<2027, 2037>>,
      <<2042, 2042>>, <<2045, 2045>>, <<2070, 2093>>, <<2137, 2139>>, <<2184,
      2184>>, <<2192, 2193>>, <<2200, 2207>>, <<2249, 2306>>, <<2362, 2362>>,
      <<2364, 2364>>, <<2369, 2376>>, <<2381, 2381>>, <<2385, 2391>>, <<2402,
      2403>>, <<2417, 2417>>, <<2433, 2433>>, <<2492, 2492>>, <<2497, 2500>>,
      <<2509, 2509>>, <<2530, 2531>>, <<2558, 2558>>, <<2561, 2562>>, <<2620,
      2620>>, <<2625, 2626>>, <<2631, 2632>>, <<2635, 2637>>, <<2641, 2641>>,
      <<2672, 2673>>, <<2677, 2677>>, <<2689, 2690>>, <<2748, 2748>>, <<2753,
      2757>>, <<2759, 2760>>, <<2765, 2765>>, <<2786, 2787>>, <<2810, 2815>>,
      <<2817, 2817>>, <<2876, 2876>>, <<2879, 2879>>, <<2881, 2884>>, <<2893,
      2893>>, <<2901, 2902>>, <<2914, 2915>>, <<2946, 2946>>, <<3008, 3008>>,
      <<3021, 3021>>, <<3072, 3072>>, <<3076, 3076>>, <<3132, 3132>>, <<3134,
      3136>>, <<3142, 3144>>, <<3146, 3149>>, <<3157, 3158>>, <<3170, 3171>>,
      <<3201, 3201>>, <<3260, 3260>>, <<3263, 3263>>, <<3270, 3270>>, <<3276,
      3277>>, <<3298, 3299>>, <<3328, 3329>>, <<3387, 3388>>, <<3393, 3396>>,
      <<3405, 3405>>, <<3426, 3427>>, <<3457, 3457>>, <<3530, 3530>>, <<3538,
      3540>>, <<3542, 3542>>, <<3633, 3633>>, <<3636, 3642>>, <<3654, 3662>>,
      <<3761, 3761>>, <<3764, 3772>>, <<3782, 3782>>, <<3784, 3789>>, <<3864,
      3865>>, <<3893, 3893>>, <<3895, 3895>>, <<3897, 3897>>, <<3953, 3966>>,
      <<3968, 3972>>, <<3974, 3975>>, <<3981, 3991>>, <<3993, 4028>>, <<4038,
      4038>>, <<4141, 4144>>, <<4146, 4151>>, <<4153, 4154>>, <<4157, 4158>>,
      <<4184, 4185>>, <<4190, 4192>>, <<4209, 4212>>, <<4226, 4226>>, <<4229,
      4230>>, <<4237, 4237>>, <<4253, 4253>>, <<4348, 4348>>, <<4957, 4959>>,
      <<5906, 5908>>, <<5938, 5939>>, <<5970, 5971>>, <<6002, 6003>>, <<6068,
      6069>>, <<6071, 6077>>, <<6086, 6086>>, <<6089, 6099>>, <<6103, 6103>>,
      <<6109, 6109>>, <<6155, 6159>>, <<6211, 6211>>, <<6277, 6278>>, <<6313,
      6313>>, <<6432, 6434>>, <<6439, 6440>>, <<6450, 6450>>, <<6457, 6459>>,
      <<6679, 6680>>, <<6683, 6683>>, <<6742, 6742>>, <<6744, 6750>>, <<6752,
      6752>>, <<6754, 6754>>, <<6757, 6764>>, <<6771, 6780>>, <<6783, 6783>>,
      <<6823, 6823>>, <<6832, 6862>>, <<6912, 6915>>, <<6964, 6964>>, <<6966,
      6970>>, <<6972, 6972>>, <<6978, 6978>>, <<7019, 7027>>, <<7040, 7041>>,
      <<7074, 7077>>, <<7080, 7081>>, <<7083, 7085>>, <<7142, 7142>>, <<7144,
      7145>>, <<7149, 7149>>, <<7151, 7153>>, <<7212, 7219>>, <<7222, 7223>>,
      <<7288, 7293>>, <<7376, 7378>>, <<7380, 7392>>, <<7394, 7400>>, <<7405,
      7405>>, <<7412, 7412>>, <<7416, 7417>>, <<7468, 7530>>, <<7544, 7544>>,
      <<7579, 7679>>, <<8125, 8125>>, <<8127, 8129>>, <<8141, 8143>>, <<8157,
      8159>>, <<8173, 8175>>, <<8189, 8190>>, <<8203, 8207>>, <<8216, 8217>>,
      <<8228, 8228>>, <<8231, 8231>>, <<8234, 8238>>, <<8288, 8292>>, <<8294,
      8303>>, <<8305, 8305>>, <<8319, 8319>>, <<8336, 8348>>, <<8400, 8432>>,
      <<11388, 11389>>, <<11503, 11505>>, <<11631, 11631>>, <<11647, 11647>>,
      <<11744, 11775>>, <<11823, 11823>>, <<12293, 12293>>, <<12330, 12333>>,
      <<12337, 12341>>, <<12347, 12347>>, <<12441, 12446>>, <<12540, 12542>>,
      <<40981, 40981>>, <<42232, 42237>>, <<42508, 42508>>, <<42607, 42610>>,
      <<42612, 42621>>, <<42623, 42623>>, <<42652, 42655>>, <<42736, 42737>>,
      <<42752, 42785>>, <<42864, 42864>>, <<42888, 42890>>, <<42994, 42996>>,
      <<43000, 43001>>, <<43010, 43010>>, <<43014, 43014>>, <<43019, 43019>>,
      <<43045, 43046>>, <<43052, 43052>>, <<43204, 43205>>, <<43232, 43249>>,
      <<43263, 43263>>, <<43302, 43309>>, <<43335, 43345>>, <<43392, 43394>>,
      <<43443, 43443>>, <<43446, 43449>>, <<43452, 43453>>, <<43471, 43471>>,
      <<43493, 43494>>, <<43561, 43566>>, <<43569, 43570>>, <<43573, 43574>>,
      <<43587, 43587>>, <<43596, 43596>>, <<43632, 43632>>, <<43644, 43644>>,
      <<43696, 43696>>, <<43698, 43700>>, <<43703, 43704>>, <<43710, 43711>>,
      <<43713, 43713>>, <<43741, 43741>>, <<43756, 43757>>, <<43763, 43764>>,
      <<43766, 43766>>, <<43867, 43871>>, <<43881, 43883>>, <<44005, 44005>>,
      <<44008, 44008>>, <<44013, 44013>>, <<64286, 64286>>, <<64434, 64450>>,
      <<65024, 65039>>, <<65043, 65043>>, <<65056, 65071>>, <<65106, 65106>>,
      <<65109, 65109>>, <<65279, 65279>>, <<65287, 65287>>, <<65294, 65294>>,
      <<65306, 65306>>, <<65342, 65342>>, <<65344, 65344>>, <<65392, 65392>>,
      <<65438, 65439>>, <<65507, 65507>>, <<65529, 65531>>, <<66045, 66045>>,
      <<66272, 66272>>, <<66422, 66426>>, <<67456, 67461>>, <<67463, 67504>>,
      <<67506, 67514>>, <<68097, 68099>>, <<68101, 68102>>, <<68108, 68111>>,
      <<68152, 68154>>, <<68159, 68159>>, <<68325, 68326>>, <<68900, 68903>>,
      <<69291, 69292>>, <<69446, 69456>>, <<69506, 69509>>, <<69633, 69633>>,
      <<69688, 69702>>, <<69744, 69744>>, <<69747, 69748>>, <<69759, 69761>>,
      <<69811, 69814>>, <<69817, 69818>>, <<69821, 69821>>, <<69826, 69826>>,
      <<69837, 69837>>, <<69888, 69890>>, <<69927, 69931>>, <<69933, 69940>>,
      <<70003, 70003>>, <<70016, 70017>>, <<70070, 70078>>, <<70089, 70092>>,
      <<70095, 70095>>, <<70191, 70193>>, <<70196, 70196>>, <<70198, 70199>>,
      <<70206, 70206>>, <<70367, 70367>>, <<70371, 70378>>, <<70400, 70401>>,
      <<70459, 70460>>, <<70464, 70464>>, <<70502, 70508>>, <<70512, 70516>>,
      <<70712, 70719>>, <<70722, 70724>>, <<70726, 70726>>, <<70750, 70750>>,
      <<70835, 70840>>, <<70842, 70842>>, <<70847, 70848>>, <<70850, 70851>>,
      <<71090, 71093>>, <<71100, 71101>>, <<71103, 71104>>, <<71132, 71133>>,
      <<71219, 71226>>, <<71229, 71229>>, <<71231, 71232>>, <<71339, 71339>>,
      <<71341, 71341>>, <<71344, 71349>>, <<71351, 71351>>, <<71453, 71455>>,
      <<71458, 71461>>, <<71463, 71467>>, <<71727, 71735>>, <<71737, 71738>>,
      <<71995, 71996>>, <<71998, 71998>>, <<72003, 72003>>, <<72148, 72151>>,
      <<72154, 72155>>, <<72160, 72160>>, <<72193, 72202>>, <<72243, 72248>>,
      <<72251, 72254>>, <<72263, 72263>>, <<72273, 72278>>, <<72281, 72283>>,
      <<72330, 72342>>, <<72344, 72345>>, <<72752, 72758>>, <<72760, 72765>>,
      <<72767, 72767>>, <<72850, 72871>>, <<72874, 72880>>, <<72882, 72883>>,
      <<72885, 72886>>, <<73009, 73014>>, <<73018, 73018>>, <<73020, 73021>>,
      <<73023, 73029>>, <<73031, 73031>>, <<73104, 73105>>, <<73109, 73109>>,
      <<73111, 73111>>, <<73459, 73460>>, <<78896, 78904>>, <<92912, 92916>>,
      <<92976, 92982>>, <<92992, 92995>>, <<94031, 94031>>, <<94095, 94111>>,
      <<94176, 94177>>, <<94179, 94180>>, <<110576, 110579>>, <<110581,
      110587>>, <<110589, 110590>>, <<113821, 113822>>, <<113824, 113827>>,
      <<118528, 118573>>, <<118576, 118598>>, <<119143, 119145>>, <<119155,
      119170>>, <<119173, 119179>>, <<119210, 119213>>, <<119362, 119364>>,
      <<121344, 121398>>, <<121403, 121452>>, <<121461, 121461>>, <<121476,
      121476>>, <<121499, 121503>>, <<121505, 121519>>, <<122880, 122886>>,
      <<122888, 122904>>, <<122907, 122913>>, <<122915, 122916>>, <<122918,
      122922>>, <<123184, 123197>>, <<123566, 123566>>, <<123628, 123631>>,
      <<125136, 125142>>, <<125252, 125259>>, <<127995, 127999>>, <<917505,
      917505>>, <<917536, 917631>>, <<917760, 917999>> }

\* The ranges <<first, last>> of the cased characters that are not
\* case-ignorable
Cased ==
    { <<65, 90>>, <<97, 122>>, <<170, 170>>, <<181, 181>>, <<186, 186>>,
      <<192, 214>>, <<216, 246>>, <<248, 442>>, <<444, 447>>, <<452, 659>>,
      <<661, 687>>, <<880, 883>>, <<886, 887>>, <<891, 893>>, <<895, 895>>,
      <<902, 902>>, <<904, 906>>, <<908, 908>>, <<910, 929>>, <<931, 1013>>,
      <<1015, 1153>>, <<1162, 1327>>, <<1329, 1366>>, <<1376, 1416>>, <<4256,
      4293>>, <<4295, 4295>>, <<4301, 4301>>, <<4304, 4346>>, <<4349, 4351>>,
      <<5024, 5109>>, <<5112, 5117>>, <<7296, 7304>>, <<7312, 7354>>, <<7357,
      7359>>, <<7424, 7467>>, <<7531, 7543>>, <<7545, 7578>>, <<7680, 7957>>,
      <<7960, 7965>>, <<7968, 8005>>, <<8008, 8013>>, <<8016, 8023>>, <<8025,
      8025>>, <<8027, 8027>>, <<8029, 8029>>, <<8031, 8061>>, <<8064, 8116>>,
      <<8118, 8124>>, <<8126, 8126>>, <<8130, 8132>>, <<8134, 8140>>, <<8144,
      8147>>, <<8150, 8155>>, <<8160, 8172>>, <<8178, 8180>>, <<8182, 8188>>,
      <<8450, 8450>>, <<8455, 8455>>, <<8458, 8467>>, <<8469, 8469>>, <<8473,
      8477>>, <<8484, 8484>>, <<8486, 8486>>, <<8488, 8488>>, <<8490, 8493>>,
      <<8495, 8500>>, <<8505, 8505>>, <<8508, 8511>>, <<8517, 8521>>, <<8526,
      8526>>, <<8544, 8575>>, <<8579, 8580>>, <<9398, 9449>>, <<11264,
      11387>>, <<11390, 11492>>, <<11499, 11502>>, <<11506, 11507>>, <<11520,
      11557>>, <<11559, 11559>>, <<11565, 11565>>, <<42560, 42605>>, <<42624,
      42651>>, <<42786, 42863>>, <<42865, 42887>>, <<42891, 42894>>, <<42896,
      42954>>, <<42960, 42961>>, <<42963, 42963>>, <<42965, 42969>>, <<42997,
      42998>>, <<43002, 43002>>, <<43824, 43866>>, <<43872, 43880>>, <<43888,
      43967>>, <<64256, 64262>>, <<64275, 64279>>, <<65313, 65338>>, <<65345,
      65370>>, <<66560, 66639>>, <<66736, 66771>>, <<66776, 66811>>, <<66928,
      66938>>, <<66940, 66954>>, <<66956, 66962>>, <<66964, 66965>>, <<66967,
      66977>>, <<66979, 66993>>, <<66995, 67001>>, <<67003, 67004>>, <<68736,
      68786>>, <<68800, 68850>>, <<71840, 71903>>, <<93760, 93823>>,
      <<119808, 119892>>, <<119894, 119964>>, <<119966, 119967>>, <<119970,
      119970>>, <<119973, 119974>>, <<119977, 119980>>, <<119982, 119993>>,
      <<119995, 119995>>, <<119997, 120003>>, <<120005, 120069>>, <<120071,
      120074>>, <<120077, 120084>>, <<120086, 120092>>, <<120094, 120121>>,
      <<120123, 120126>>, <<120128, 120132>>, <<120134, 120134>>, <<120138,
      120144>>, <<120146, 120485>>, <<120488, 120512>>, <<120514, 120538>>,
      <<120540, 120570>>, <<120572, 120596>>, <<120598, 120628>>, <<120630,
      120654>>, <<120656, 120686>>, <<120688, 120712>>, <<120714, 120744>>,
      <<120746, 120770>>, <<120772, 120779>>, <<122624, 122633>>, <<122635,
      122654>>, <<125184, 125251>>, <<127280, 127305>>, <<127312, 127337>>,
      <<127344, 127369>> }

\* c lies in one of the ranges
InRanges(ranges, c) == \E r \in ranges : r[1] <= c /\ c <= r[2]

\* The image of c under the mappings given as runs, c itself when it has none
Shifted(runs, c) ==
    LET hit == {r \in runs : r[1] <= c /\ c <= r[2] /\ (c - r[1]) % r[3] = 0}
    IN  IF hit = {} THEN c ELSE c + (CHOOSE r \in hit : TRUE)[4]

\* The capital sigma at s[i] ends a word: going back over the case-ignorable
\* characters there is a cased character before it, and going forward over
\* them there is none after it
FinalSigma(s, i) ==
    /\ \E j \in 1..(i - 1) :
           /\ InRanges(Cased, s[j])
           /\ \A k \in (j + 1)..(i - 1) : InRanges(CaseIgnorable, s[k])
    /\ ~ \E j \in (i + 1)..Len(s) :
           /\ InRanges(Cased, s[j])
           /\ \A k \in (i + 1)..(j - 1) : InRanges(CaseIgnorable, s[k])

\* The lowercase of the character s[i] of s: one character, but two for
\* U+0130, and for the capital sigma U+03A3 the final or the medial sigma
LowerAt(s, i) ==
    IF s[i] < 128 THEN << IF 65 <= s[i] /\ s[i] <= 90 THEN s[i] + 32 ELSE s[i] >>
    ELSE IF s[i] = 304 THEN <<105, 775>>
    ELSE IF s[i] = 931 THEN << IF FinalSigma(s, i) THEN 962 ELSE 963 >>
    ELSE << Shifted(LowerRuns, s[i]) >>

\* The lowercase of s[i:], each character lowered within the whole of s
RECURSIVE LowerFrom(_, _)
LowerFrom(s, i) ==
    IF i > Len(s) THEN <<>> ELSE LowerAt(s, i) \o LowerFrom(s, i + 1)

\* s.lower()
Lower(s) == LowerFrom(s, 1)

\* The titlecase of the character c
TitleOf(c) ==
    IF c < 128 THEN << IF 97 <= c /\ c <= 122 THEN c - 32 ELSE c >>
    ELSE IF \E p \in TitleSpecial : p[1] = c
    THEN (CHOOSE p \in TitleSpecial : p[1] = c)[2]
    ELSE << Shifted(TitleRuns, c) >>

\* word.capitalize(): the first character in titlecase, the rest in lower
\* case
capitalize(word) ==
    IF word = <<>> THEN <<>> ELSE TitleOf(word[1]) \o LowerFrom(word, 2)

-----------------------------------------------------------------------------
(* Python floats *)

(* A float x >= 0 is the natural number x * 2^60, and a natural number is  *)
(* the sequence of its digits in base 2^15, the least significant first    *)
(* and the most significant not 0: 0.0 is <<>>, 1.0 is <<0, 0, 0, 0, 1>>   *)
(* and 0.5 is <<0, 0, 0, 16384>>.  A sum, a product and a quotient are     *)
(* computed exactly and then rounded to 53 significant bits, a tie to the  *)
(* even neighbour, which is what the IEEE 754 double operations of Python  *)
(* do; the floats of make_response_list are 0.0 or lie between 2^-7 and    *)
(* 2^15, where each of them is a whole multiple of 2^-60.                  *)

Radix == 2^15

\* The i-th digit of n, 0 above the most significant
Digit(n, i) == IF i <= Len(n) THEN n[i] ELSE 0

\* n without zeros above its most significant digit
RECURSIVE Canonical(_)
Canonical(n) ==
    IF n # <<>> /\ n[Len(n)] = 0 THEN Canonical(SubSeq(n, 1, Len(n) - 1)) ELSE n

\* a + b
RECURSIVE NatAddFrom(_, _, _, _)
NatAddFrom(a, b, i, carry) ==
    IF i > Len(a) /\ i > Len(b)
    THEN IF carry = 0 THEN <<>> ELSE <<carry>>
    ELSE <<(Digit(a, i) + Digit(b, i) + carry) % Radix>>
         \o NatAddFrom(a, b, i + 1, (Digit(a, i) + Digit(b, i) + carry) \div Radix)

NatAdd(a, b) == Canonical(NatAddFrom(a, b, 1, 0))

\* a * d for one digit d
RECURSIVE NatTimesDigitFrom(_, _, _, _)
NatTimesDigitFrom(a, d, i, carry) ==
    IF i > Len(a)
    THEN IF carry = 0 THEN <<>> ELSE <<carry>>
    ELSE <<(a[i] * d + carry) % Radix>>
         \o NatTimesDigitFrom(a, d, i + 1, (a[i] * d + carry) \div Radix)

NatTimesDigit(a, d) == Canonical(NatTimesDigitFrom(a, d, 1, 0))

\* a * b
RECURSIVE NatTimes(_, _)
NatTimes(a, b) ==
    IF a = <<>> \/ b = <<>> THEN <<>>
    ELSE NatAdd(NatTimesDigit(a, b[1]), Canonical(<<0>> \o NatTimes(a, Tail(b))))

\* The quotient q and the remainder r of a by n, 0 < n < Radix, from digit
\* i of a down, r being the remainder of the digits above
RECURSIVE NatOverFrom(_, _, _, _)
NatOverFrom(a, n, i, r) ==
    IF i = 0 THEN [q |-> <<>>, r |-> r]
    ELSE LET below == NatOverFrom(a, n, i - 1, (r * Radix + a[i]) % n)
         IN  [q |-> Append(below.q, (r * Radix + a[i]) \div n), r |-> below.r]

NatOver(a, n) ==
    [q |-> Canonical(NatOverFrom(a, n, Len(a), 0).q),
     r |-> NatOverFrom(a, n, Len(a), 0).r]

\* a < b
NatLess(a, b) ==
    \/ Len(a) < Len(b)
    \/ /\ Len(a) = Len(b)
       /\ \E i \in 1..Len(a) :
              a[i] < b[i] /\ \A j \in (i + 1)..Len(a) : a[j] = b[j]

\* The number of bits of the digit d
RECURSIVE BitsOf(_)
BitsOf(d) == IF d = 0 THEN 0 ELSE 1 + BitsOf(d \div 2)

\* The number of bits of n
BitLength(n) == IF n = <<>> THEN 0 ELSE 15 * (Len(n) - 1) + BitsOf(n[Len(n)])

\* Bit p of n, bit 0 the least significant
Bit(n, p) == (Digit(n, p \div 15 + 1) \div 2^(p % 15)) % 2

\* 2^p
PowerOfTwo(p) == [i \in 1..(p \div 15 + 1) |-> IF i = p \div 15 + 1 THEN 2^(p % 15) ELSE 0]

\* n with the bits below bit p cleared
ClearedBelow(n, p) ==
    [i \in 1..Len(n) |->
        IF i < p \div 15 + 1 THEN 0
        ELSE IF i = p \div 15 + 1 THEN n[i] - (n[i] % 2^(p % 15))
        ELSE n[i]]

\* The double nearest to the number that is n, or a little more than n when
\* `more`: n rounded to 53 significant bits, a tie to the even neighbour
RoundToDouble(n, more) ==
    LET drop == BitLength(n) - 53
    IN  IF drop <= 0 THEN n
        ELSE IF /\ Bit(n, drop - 1) = 1
                /\ \/ more
                   \/ \E p \in 0..(drop - 2) : Bit(n, p) = 1
                   \/ Bit(n, drop) = 1
        THEN NatAdd(ClearedBelow(n, drop), PowerOfTwo(drop))
        ELSE Canonical(ClearedBelow(n, drop))

\* x + y
FloatAdd(x, y) == RoundToDouble(NatAdd(x, y), FALSE)

\* x * y: the exact product has 120 fraction bits, of which the rounded
\* one needs the upper 60
FloatTimes(x, y) ==
    LET product == RoundToDouble(NatTimes(x, y), FALSE)
    IN  SubSeq(product, 5, Len(product))

\* x / n for an integer n, 0 < n < 2^15: the quotient is computed to 75
\* fraction bits, of which the rounded one needs the upper 60
FloatOver(x, n) ==
    LET division == NatOver(<<0>> \o x, n)
        quotient == RoundToDouble(division.q, division.r # 0)
    IN  SubSeq(quotient, 2, Len(quotient))

\* x < y
FloatLess(x, y) == NatLess(x, y)

\* The float x in millionths, rounded down
Millionths(x) ==
    LET n == NatTimesDigit(NatTimesDigit(x, 1000), 1000)
    IN  Digit(n, 5) + Radix * Digit(n, 6) + Radix * Radix * Digit(n, 7)

-----------------------------------------------------------------------------
(* Python dict primitives, on sequences of [key, val] in insertion order *)

\* key in d
HasKey(d, key) == \E i \in 1..Len(d) : d[i].key = key

IndexOfKey(d, key) == CHOOSE i \in 1..Len(d) : d[i].key = key

\* d[key], for a key of d
Get(d, key) == d[IndexOfKey(d, key)].val

\* d.keys()
Keys(d) == [i \in 1..Len(d) |-> d[i].key]

\* d[key] = val: an existing key keeps its place, a new key goes last
DictSet(d, key, val) ==
    IF HasKey(d, key)
    THEN [d EXCEPT ![IndexOfKey(d, key)].val = val]
    ELSE Append(d, [key |-> key, val |-> val])

\* del d[key]
DictDel(d, key) ==
    LET i == IndexOfKey(d, key)
    IN  SubSeq(d, 1, i - 1) \o SubSeq(d, i + 1, Len(d))

-----------------------------------------------------------------------------
(* Person names and query rows *)

\* "Dagur"
Dagur == <<68, 97, 103, 117, 114>>
\* "Lilja"
Lilja == <<76, 105, 108, 106, 97>>
\* "Eggertsson"
Eggertsson == <<69, 103, 103, 101, 114, 116, 115, 115, 111, 110>>
\* "B."
AbbrB == <<66, 46>>
\* "Berg"
Berg == <<66, 101, 114, 103>>
\* "G."
AbbrG == <<71, 46>>
\* "K."
AbbrK == <<75, 46>>

\* The name texts a person query can return, as stored (before correct_spaces)
RawPersonNames ==
    { JoinWith(<<32>>, <<Dagur, Eggertsson>>),
      JoinWith(<<32, 9>>, <<Dagur, Eggertsson>>),
      JoinWith(<<32>>, <<Dagur, AbbrB, Eggertsson>>),
      JoinWith(<<32>>, <<Dagur, Berg, Eggertsson>>),
      JoinWith(<<32>>, <<Dagur, AbbrG, Eggertsson>>),
      JoinWith(<<32>>, <<Dagur, AbbrK, Eggertsson>>),
      JoinWith(<<32>>, <<Dagur, AbbrB, AbbrG, Eggertsson>>),
      JoinWith(<<32>>, <<Lilja, Eggertsson>>) }

\* The articles the rows of a query come from: Article.id, Article.timestamp
Articles ==
    { [id |-> 1, timestamp |-> 10], [id |-> 2, timestamp |-> 20] }

\* The rows p of a query q; prop_func(p) is p.name
Rows == [name : RawPersonNames, article : Articles]

\* reynir.correct_spaces on a name: single spaces between the tokens
correct_spaces(s) == JoinWith(<<32>>, Split(s))

-----------------------------------------------------------------------------
(* name_key_to_update *)

\* has_correspondence(n, nlist): n, or the abbreviation n, can be a middle
\* name or abbreviation of nlist
has_correspondence(n, nlist) ==
    LET n1 == StripDot(n)
    IN  \E i \in 1..Len(nlist) :
            LET m == StripDot(nlist[i])
            IN  n1 = m \/ StartsWith(n1, m) \/ StartsWith(m, n1)

\* Variant: all(c_n_p) alone, the direction p -> n forgotten
SamePersonOneWayOnly(mn, mp) ==
    \A i \in 1..Len(mn) : has_correspondence(mn[i], mp)

\* all(c_n_p) or all(c_p_n)
SamePerson(mn, mp) ==
    \/ \A i \in 1..Len(mn) : has_correspondence(mn[i], mp)
    \/ \A i \in 1..Len(mp) : has_correspondence(mp[i], mn)

\* Variant: len(mn) >= len(mp)
MoreSpecificOrEqual(mn, mp) == Len(mn) >= Len(mp)

\* len(mn) > len(mp): the new name is more specific than the old one
MoreSpecific(mn, mp) == Len(mn) > Len(mp)

\* Variant: register[name] = register[k] without del register[k]
RenameKeyFresh(reg, k, name) == DictDel(DictSet(reg, name, <<>>), k)

RenameKeyKeepOld(reg, k, name) == DictSet(reg, name, Get(reg, k))

\* register[name] = register[k]; del register[k]
RenameKey(reg, k, name) == DictDel(DictSet(reg, name, Get(reg, k)), k)

\* Variant: the tests `not mn` and `not mp` taken for one another
KeyVerdictSwapped(name, k) ==
    LET nparts == Split(name)
        parts == Split(k)
        mn == Middle(nparts)
        mp == Middle(parts)
    IN  IF nparts = <<>> \/ parts = <<>> THEN "raise"
        ELSE IF nparts[1] # parts[1] \/ LastOf(nparts) # LastOf(parts) THEN "skip"
        ELSE IF mn = <<>> THEN "rename"
        ELSE IF mp = <<>> THEN "keep"
        ELSE IF SamePerson(mn, mp)
             THEN IF MoreSpecific(mn, mp) THEN "rename" ELSE "keep"
             ELSE "skip"

\* One pass of the loop body for the key k: "skip" (continue), "keep"
\* (return k), "rename" (move register[k] to register[name], return name)
\* or "raise" (nparts[0] or parts[0] of a name without a word: IndexError)
KeyVerdict(name, k) ==
    LET nparts == Split(name)
        parts == Split(k)
        mn == Middle(nparts)
        mp == Middle(parts)
    IN  IF nparts = <<>> \/ parts = <<>> THEN "raise"
        ELSE IF nparts[1] # parts[1] \/ LastOf(nparts) # LastOf(parts) THEN "skip"
        ELSE IF mn = <<>> THEN "keep"
        ELSE IF mp = <<>> THEN "rename"
        ELSE IF SamePerson(mn, mp)
             THEN IF MoreSpecific(mn, mp) THEN "rename" ELSE "keep"
             ELSE "skip"

\* for k in register.keys(): ..., from the i-th key on
RECURSIVE ScanKeys(_, _, _)
ScanKeys(reg, name, i) ==
    IF i > Len(reg)
    THEN [ret |-> name, reg |-> reg, raised |-> FALSE]
    ELSE LET k == reg[i].key
             v == KeyVerdict(name, k)
         IN  IF v = "raise" THEN [ret |-> <<>>, reg |-> reg, raised |-> TRUE]
             ELSE IF v = "keep" THEN [ret |-> k, reg |-> reg, raised |-> FALSE]
             ELSE IF v = "rename"
                  THEN [ret |-> name, reg |-> RenameKey(reg, k, name),
                        raised |-> FALSE]
                  ELSE ScanKeys(reg, name, i + 1)

\* name_key_to_update(register, name): the key to update, and the register
\* as the call leaves it; raised when the call raises IndexError and returns
\* nothing
name_key_to_update(reg, name) ==
    IF HasKey(reg, name)
    THEN [ret |-> name, reg |-> reg, raised |-> FALSE]
    ELSE ScanKeys(reg, name, 1)

-----------------------------------------------------------------------------
(* append_names *)

\* ai = dict(uuid=p.id, timestamp=p.timestamp, ...): the descriptor of the
\* article of row p (domain, heading, ts and url are carried with it unread)
ArticleDescriptor(p) ==
    [uuid |-> p.article.id, timestamp |-> p.article.timestamp]

AddMentionAppend(d, s, ai) ==
    LET old == IF HasKey(d, s) THEN Get(d, s) ELSE <<>>
    IN  DictSet(d, s, Append(old, [key |-> ai.uuid, val |-> ai]))

AddMentionCapped(d, s, ai) ==
    LET old == IF HasKey(d, s) THEN Get(d, s) ELSE <<>>
    IN  IF Len(old) >= 5 /\ ~HasKey(old, ai.uuid) THEN d
        ELSE DictSet(d, s, DictSet(old, ai.uuid, ai))

\* rd[s][uuid] = ai on a defaultdict(dict)
AddMention(d, s, ai) ==
    LET old == IF HasKey(d, s) THEN Get(d, s) ELSE <<>>
    IN  DictSet(d, s, DictSet(old, ai.uuid, ai))

NoCall ==
    [called |-> FALSE, name |-> <<>>, pre |-> <<>>, ret |-> <<>>, post |-> <<>>,
     raised |-> FALSE]

\* One pass of `for p in q` in append_names; an exception of
\* name_key_to_update leaves rd as it was
AppendNamesRow(p) ==
    LET s == correct_spaces(p.name)
        r == name_key_to_update(rd, s)
    IN  /\ nrows < MaxRows
        /\ nrows' = nrows + 1
        /\ nk' = [called |-> TRUE, name |-> s, pre |-> rd, ret |-> r.ret,
                  post |-> r.reg, raised |-> r.raised]
        /\ rd' = IF r.raised THEN rd ELSE AddMention(r.reg, r.ret, ArticleDescriptor(p))
        /\ seen' = Append(seen, ArticleDescriptor(p))
        /\ UNCHANGED <<register, rc, ntokens, qs, query, resp, wq, dw, corpus, ls>>

AppendNames == \E p \in Rows : AppendNamesRow(p)

-----------------------------------------------------------------------------
(* add_entity_to_register, add_name_to_register, create_name_register *)

\* "Hillary"
Hillary == <<72, 105, 108, 108, 97, 114, 121>>
\* "Rodham"
Rodham == <<82, 111, 100, 104, 97, 109>>
\* "R."
AbbrR == <<82, 46>>
\* "Clinton"
Clinton == <<67, 108, 105, 110, 116, 111, 110>>
\* "Clintons"
Clintons == <<67, 108, 105, 110, 116, 111, 110, 115>>

\* pn.name of the PERSON tokens
TokenPersonNames ==
    { JoinWith(<<32>>, <<Hillary, Clinton>>),
      JoinWith(<<32>>, <<Hillary, Rodham, Clinton>>),
      JoinWith(<<32>>, <<Hillary, AbbrR, Clinton>>) }

\* t.txt of the ENTITY tokens
TokenEntityNames ==
    { Clinton, Clintons, JoinWith(<<32>>, <<Hillary, Clinton>>) }

\* Python's None, as the title of a name without one
None == "<None>"

\* What query_person_title and query_entity_def return: "" when the
\* database has nothing, else the best title or definition
LookupResults == {"", "forsetaframbjodandi"}

\* Variant: the test len(parts) > 1 left out
RefTargetAnyLength(reg, n) ==
    LET M == {i \in 1..Len(reg) : LastOf(Split(reg[i].key)) = n}
    IN  IF M = {} THEN 0 ELSE CHOOSE i \in M : \A j \in M : i <= j

\* The first key k, in scan order, with len(parts) > 1 and parts[-1] == n;
\* 0 when there is none
RefTarget(reg, n) ==
    LET M == {i \in 1..Len(reg) :
                 LET parts == Split(reg[i].key)
                 IN  Len(parts) > 1 /\ LastOf(parts) = n}
    IN  IF M = {} THEN 0 ELSE CHOOSE i \in M : \A j \in M : i <= j

\* The tail of add_entity_to_register: query_entity_def and what is stored
EntityDefinition(reg, name, definition, all_names) ==
    IF definition # ""
    THEN [reg |-> DictSet(reg, name, [kind |-> "entity", title |-> definition]),
          looked_up |-> TRUE, raised |-> FALSE]
    ELSE IF all_names
         THEN [reg |-> DictSet(reg, name, [kind |-> "entity", title |-> None]),
               looked_up |-> TRUE, raised |-> FALSE]
         ELSE [reg |-> reg, looked_up |-> TRUE, raised |-> FALSE]

\* register[name] = dict(kind="ref", fullname=k)
EntityRef(reg, name, i) ==
    [reg |-> DictSet(reg, name, [kind |-> "ref", fullname |-> reg[i].key]),
     looked_up |-> FALSE, raised |-> FALSE]

\* add_entity_to_register(name, register, session, all_names), where
\* query_entity_def(session, name) would return `definition`: the register
\* as the call leaves it, whether the definition was looked up, and whether
\* the call raised IndexError (name[-1] of the empty name)
add_entity_to_register(reg, name, definition, all_names) ==
    IF HasKey(reg, name)
    THEN [reg |-> reg, looked_up |-> FALSE, raised |-> FALSE]
    ELSE IF ~HasSpace(name)
         THEN IF RefTarget(reg, name) # 0
              THEN EntityRef(reg, name, RefTarget(reg, name))
              ELSE IF name = <<>>
              THEN [reg |-> reg, looked_up |-> FALSE, raised |-> TRUE]
              ELSE IF name[Len(name)] = 115
                      /\ RefTarget(reg, SubSeq(name, 1, Len(name) - 1)) # 0
                   THEN EntityRef(reg, name,
                                  RefTarget(reg, SubSeq(name, 1, Len(name) - 1)))
                   ELSE EntityDefinition(reg, name, definition, all_names)
         ELSE EntityDefinition(reg, name, definition, all_names)

add_name_to_register_new_keys_only(reg, name, title, all_names) ==
    IF HasKey(reg, name)
    THEN [reg |-> reg, looked_up |-> FALSE, raised |-> FALSE]
    ELSE LET r == name_key_to_update(reg, name)
         IN  IF r.raised
             THEN [reg |-> reg, looked_up |-> TRUE, raised |-> TRUE]
             ELSE IF HasKey(reg, r.ret)
             THEN [reg |-> r.reg, looked_up |-> TRUE, raised |-> FALSE]
             ELSE IF title # ""
             THEN [reg |-> DictSet(r.reg, r.ret, [kind |-> "name", title |-> title]),
                   looked_up |-> TRUE, raised |-> FALSE]
             ELSE IF all_names
                  THEN [reg |-> DictSet(r.reg, r.ret, [kind |-> "name", title |-> None]),
                        looked_up |-> TRUE, raised |-> FALSE]
                  ELSE [reg |-> r.reg, looked_up |-> TRUE, raised |-> FALSE]

\* add_name_to_register(name, register, session, all_names), where
\* query_person_title(session, name) would return `title`
add_name_to_register(reg, name, title, all_names) ==
    IF HasKey(reg, name)
    THEN [reg |-> reg, looked_up |-> FALSE, raised |-> FALSE]
    ELSE LET r == name_key_to_update(reg, name)
         IN  IF r.raised
             THEN [reg |-> reg, looked_up |-> TRUE, raised |-> TRUE]
             ELSE IF title # ""
             THEN [reg |-> DictSet(r.reg, r.ret, [kind |-> "name", title |-> title]),
                   looked_up |-> TRUE, raised |-> FALSE]
             ELSE IF all_names
                  THEN [reg |-> DictSet(r.reg, r.ret, [kind |-> "name", title |-> None]),
                        looked_up |-> TRUE, raised |-> FALSE]
                  ELSE [reg |-> r.reg, looked_up |-> TRUE, raised |-> FALSE]

NoRegisterCall ==
    [op |-> "none", name |-> <<>>, pre |-> <<>>, found |-> "",
     all_names |-> FALSE, looked_up |-> FALSE, raised |-> FALSE]

\* create_name_register meets a PERSON token: add_name_to_register
AddName(name, title, all_names) ==
    LET r == add_name_to_register(register, name, title, all_names)
    IN  /\ ntokens < MaxTokens
        /\ ntokens' = ntokens + 1
        /\ register' = r.reg
        /\ rc' = [op |-> "name", name |-> name, pre |-> register, found |-> title,
                  all_names |-> all_names, looked_up |-> r.looked_up,
                  raised |-> r.raised]
        /\ UNCHANGED <<rd, nk, nrows, qs, query, seen, resp, wq, dw, corpus, ls>>

\* create_name_register meets an ENTITY token: add_entity_to_register
AddEntity(name, definition, all_names) ==
    LET r == add_entity_to_register(register, name, definition, all_names)
    IN  /\ ntokens < MaxTokens
        /\ ntokens' = ntokens + 1
        /\ register' = r.reg
        /\ rc' = [op |-> "entity", name |-> name, pre |-> register,
                  found |-> definition, all_names |-> all_names,
                  looked_up |-> r.looked_up, raised |-> r.raised]
        /\ UNCHANGED <<rd, nk, nrows, qs, query, seen, resp, wq, dw, corpus, ls>>

-----------------------------------------------------------------------------
(* launch_search *)

\* sum(seq)
RECURSIVE SumSeq(_)
SumSeq(seq) == IF seq = <<>> THEN 0 ELSE Head(seq) + SumSeq(Tail(seq))

\* len(terms): every token extends terms by its stems
NumTerms(stems) == SumSeq(stems)

\* index on reaching token i in `for d, n in fixups`: the number of stems of
\* the tokens before it
IndexAt(stems, i) == SumSeq(SubSeq(stems, 1, i - 1))

\* tweights, after the fixups: token i has w = 0.0 when it has no stems and
\* sum(weights[index : index + n]) / n otherwise; a weight is the pair
\* <<numerator, denominator>>
TokenWeights(stems, weights) ==
    [i \in 1..Len(stems) |->
        IF stems[i] = 0
        THEN <<0, 1>>
        ELSE <<SumSeq(SubSeq(weights, IndexAt(stems, i) + 1,
                             IndexAt(stems, i) + stems[i])),
               stems[i]>>]

\* The names that builtin.py binds at module level: what it imports, what it
\* assigns and the functions it defines (a letter outside ASCII is written
\* as Python's ascii() writes it), and the names every module has
ModuleNames ==
    { "math", "datetime", "defaultdict", "Settings", "Article", "Person",
      "Entity", "Root", "RelatedWordsQuery", "ArticleCountQuery",
      "ArticleListQuery", "TreeUtility", "TOK", "correct_spaces",
      "stems_of_token", "Search", "HANDLE_TREE", "_MAXLEN_ANSWER",
      "_MAXLEN_SEARCH", "_CUTOFF_AFTER", "_MAX_URLS", "_MAX_MENTIONS",
      "append_answers", "name_key_to_update", "append_names",
      "make_response_list", "prepare_response", "add_entity_to_register",
      "add_name_to_register", "create_name_register", "_query_person_titles",
      "_query_article_list", "query_person", "query_person_title",
      "query_title", "_query_entity_definitions", "query_entity",
      "query_entity_def", "query_company", "query_word", "launch_search",
      "_QFUNC", "sentence", "GRAMMAR", "QPerson", "QCompany", "QEntity",
      "QTitle", "QWord", "QSearch", "S\\xe9rnafn", "Fyrirt\\xe6ki",
      "Mannsnafn", "EfLi\\xf0ur", "FsMe\\xf0Fallstj\\xf3rn", "QEntityKey",
      "QTitleKey", "QWordNounKey", "QWordPersonKey", "QWordEntityKey",
      "QWordVerbKey", "__name__", "__doc__", "__package__", "__loader__",
      "__spec__", "__file__", "__cached__", "__builtins__" }

\* The names of the builtins module, where a name is looked up that the
\* module does not bind
BuiltinNames ==
    { "ArithmeticError", "AssertionError", "AttributeError", "BaseException",
      "BaseExceptionGroup", "BlockingIOError", "BrokenPipeError",
      "BufferError", "BytesWarning", "ChildProcessError",
      "ConnectionAbortedError", "ConnectionError", "ConnectionRefusedError",
      "ConnectionResetError", "DeprecationWarning", "EOFError", "Ellipsis",
      "EncodingWarning", "EnvironmentError", "Exception", "ExceptionGroup",
      "False", "FileExistsError", "FileNotFoundError", "FloatingPointError",
      "FutureWarning", "GeneratorExit", "IOError", "ImportError",
      "ImportWarning", "IndentationError", "IndexError", "InterruptedError",
      "IsADirectoryError", "KeyError", "KeyboardInterrupt", "LookupError",
      "MemoryError", "ModuleNotFoundError", "NameError", "None",
      "NotADirectoryError", "NotImplemented", "NotImplementedError",
      "OSError", "OverflowError", "PendingDeprecationWarning",
      "PermissionError", "ProcessLookupError", "RecursionError",
      "ReferenceError", "ResourceWarning", "RuntimeError", "RuntimeWarning",
      "StopAsyncIteration", "StopIteration", "SyntaxError", "SyntaxWarning",
      "SystemError", "SystemExit", "TabError", "TimeoutError", "True",
      "TypeError", "UnboundLocalError", "UnicodeDecodeError",
      "UnicodeEncodeError", "UnicodeError", "UnicodeTranslateError",
      "UnicodeWarning", "UserWarning", "ValueError", "Warning",
      "ZeroDivisionError", "__build_class__", "__debug__", "__doc__",
      "__import__", "__loader__", "__name__", "__package__", "__spec__",
      "abs", "aiter", "all", "anext", "any", "ascii", "bin", "bool",
      "breakpoint", "bytearray", "bytes", "callable", "chr", "classmethod",
      "compile", "complex", "copyright", "credits", "delattr", "dict", "dir",
      "divmod", "enumerate", "eval", "exec", "exit", "filter", "float",
      "format", "frozenset", "getattr", "globals", "hasattr", "hash", "help",
      "hex", "id", "input", "int", "isinstance", "issubclass", "iter", "len",
      "license", "list", "locals", "map", "max", "memoryview", "min", "next",
      "object", "oct", "open", "ord", "pow", "print", "property", "quit",
      "range", "repr", "reversed", "round", "set", "setattr", "slice",
      "sorted", "staticmethod", "str", "sum", "super", "tuple", "type",
      "vars", "zip" }

\* Evaluating the global name n in a function of the module does not raise
\* NameError
NameDefined(n) == n \in ModuleNames \cup BuiltinNames

Returns(value) == [kind |-> "returns", text |-> "", value |-> value]
Raises(text) == [kind |-> "Exception", text |-> text, value |-> <<>>]
Asserts == [kind |-> "AssertionError", text |-> "", value |-> <<>>]

\* launch_search(query, session, qkey), where stems[i] is the number of
\* stems of the i-th token of the query and service is what
\* Search.list_similar_to_terms returns
\* Its first statement passes root=_QUERY_ROOT: evaluating a name that the
\* module does not have raises NameError, after query.token_list() and
\* before any token is looked at.
launch_search(stems, service) ==
    IF ~NameDefined("_QUERY_ROOT")
    THEN Raises("name '_QUERY_ROOT' is not defined")
    ELSE IF ~service.has_weights \/ service.weights = <<>>
    THEN Raises("Unable to connect to the similarity server")
    ELSE IF Len(service.weights) # NumTerms(stems)
         THEN Asserts
         ELSE Returns([answers |-> "articles",
                       weights |-> TokenWeights(stems, service.weights)])

\* Largest number of weights that the similarity service returns to a
\* search on its own
MaxWeights == 4

\* The per-token numbers of stems of the queries searched for on their own
TokenStems == UNION {[1..n -> 0..2] : n \in 1..3}

\* What Search.list_similar_to_terms returns to them
SearchResults ==
    { [has_weights |-> FALSE, weights |-> <<>>] }
        \cup { [has_weights |-> TRUE, weights |-> w] :
                   w \in UNION {[1..n -> {1, 3, 4}] : n \in 0..MaxWeights} }

NoSearch == [called |-> FALSE]

\* One call of launch_search
LaunchSearch(stems, service) ==
    /\ ls' = [called |-> TRUE, stems |-> stems, service |-> service,
              ret |-> launch_search(stems, service)]
    /\ UNCHANGED <<rd, nk, nrows, register, rc, ntokens, qs, query, seen, resp, wq, dw,
                   corpus>>

-----------------------------------------------------------------------------
(* sentence: the query dispatcher *)

\* The keys of _QFUNC
QFUNC == {"Person", "Title", "Entity", "Company", "Word", "Search"}

\* The handlers that return (response, voice_answer)
PairHandlers == {"Person", "Title", "Entity", "Company"}

\* The parse results: with a qtype of _QFUNC, with another qtype, or without
Results ==
    [has_qtype : {TRUE}, qtype : QFUNC \cup {"Weather"}, qkey : {"Katrin"}]
        \cup [has_qtype : {FALSE}, qtype : {""}, qkey : {""}]

\* What a call can do: return, raise an Exception, raise an AssertionError
Outcomes == {"returns", "Exception", "AssertionError"}

\* What each method of the query object does when it is called
QueryObjects ==
    [set_qtype : Outcomes, set_key : Outcomes, set_answer : Outcomes,
     set_error : Outcomes]

\* The per-token numbers of stems of a search query
SearchStems ==
    { st \in UNION {[1..n -> 0..MaxTerms] : n \in 1..2} : SumSeq(st) <= MaxTerms }

\* The results of the similarity service: without weights, or with them
ServiceResults ==
    { [has_weights |-> FALSE, weights |-> <<>>] }
        \cup { [has_weights |-> TRUE, weights |-> w] :
                   w \in UNION {[1..n -> {1, 3}] : n \in 0..MaxTerms} }

\* The similarity service as a query that is no search leaves it: unused
NoService == [has_weights |-> FALSE, weights |-> <<>>]

\* What the handler of the result meets in the data layer: the lookups
\* return or raise, and a search has its tokens and the answer of the
\* similarity service; without a handler nothing is looked up
Environments(result) ==
    IF result.has_qtype /\ result.qtype = "Search"
    THEN [lookup : Outcomes, stems : {<<1>>}, service : {NoService}]
             \cup [lookup : {"returns"}, stems : SearchStems, service : ServiceResults]
    ELSE IF result.has_qtype /\ result.qtype \in QFUNC
         THEN [lookup : Outcomes, stems : {<<1>>}, service : {NoService}]
         ELSE [lookup : {"returns"}, stems : {<<1>>}, service : {NoService}]

\* qfunc(q, session, result.qkey)
Handler(qtype, env) ==
    IF env.lookup = "Exception" THEN Raises("lookup failed")
    ELSE IF env.lookup = "AssertionError" THEN Asserts
    ELSE IF qtype = "Search" THEN launch_search(env.stems, env.service)
    ELSE IF qtype \in PairHandlers THEN Returns(<<"response", "voice_answer">>)
    ELSE Returns("response")

\* The run of sentence() so far: the calls made, and the exception in flight
Started == [log |-> <<>>, out |-> "none", text |-> ""]

\* A call of a method of q, or of the handler, unless an exception is in flight
Call(run, name, args, outcome) ==
    IF run.out # "none"
    THEN run
    ELSE [log |-> Append(run.log, [call |-> name, args |-> args]),
          out |-> IF outcome = "returns" THEN "none" ELSE outcome,
          text |-> IF outcome = "Exception" THEN name \o " failed" ELSE ""]

\* q.set_error("E_QUERY_NOT_UNDERSTOOD")
NotUnderstood(q) ==
    Call(Started, "set_error", <<"E_QUERY_NOT_UNDERSTOOD">>, q.set_error)

\* Variant: q.set_key before q.set_qtype
SetKeyAndType(result, q) ==
    Call(Call(Started, "set_key", <<result.qkey>>, q.set_key),
         "set_qtype", <<result.qtype>>, q.set_qtype)

\* q.set_qtype(result.qtype); q.set_key(result.qkey)
SetTypeAndKey(result, q) ==
    Call(Call(Started, "set_qtype", <<result.qtype>>, q.set_qtype),
         "set_key", <<result.qkey>>, q.set_key)

\* The body of the try statement: the handler, then q.set_answer
TryBody(run, result, env, q) ==
    LET h == Handler(result.qtype, env)
        called == Call(run, "handler", <<result.qtype, result.qkey>>, "returns")
    IN  IF h.kind = "returns"
        THEN Call(called, "set_answer",
                  IF result.qtype \in PairHandlers
                  THEN <<h.value[1], h.value[2]>>
                  ELSE <<h.value, None>>,
                  q.set_answer)
        ELSE [log |-> called.log, out |-> h.kind, text |-> h.text]

\* Variant: without `except AssertionError: raise`
TryHandlerCatchAll(run, result, env, q) ==
    LET tried == TryBody(run, result, env, q)
    IN  IF tried.out # "none"
        THEN Call([tried EXCEPT !.out = "none"], "set_error",
                  <<"E_EXCEPTION: " \o tried.text>>, q.set_error)
        ELSE tried

\* try: ... except AssertionError: raise; except Exception as e: q.set_error
TryHandler(run, result, env, q) ==
    LET tried == TryBody(run, result, env, q)
    IN  IF tried.out = "Exception"
        THEN Call([tried EXCEPT !.out = "none"], "set_error",
                  <<"E_EXCEPTION: " \o tried.text>>, q.set_error)
        ELSE tried

\* sentence(state, result), with q = state["query"]
sentence(result, env, q) ==
    IF result.has_qtype
    THEN LET run == SetTypeAndKey(result, q)
         IN  IF run.out # "none" THEN run
             ELSE IF result.qtype \notin QFUNC
                  THEN Call(run, "set_answer",
                            <<result.qtype \o ": " \o result.qkey>>, q.set_answer)
                  ELSE TryHandler(run, result, env, q)
    ELSE NotUnderstood(q)

NoDispatch ==
    [called |-> FALSE, result |-> [has_qtype |-> FALSE, qtype |-> "", qkey |-> ""],
     env |-> [lookup |-> "returns", stems |-> <<1>>, service |-> NoService],
     q |-> [set_qtype |-> "returns", set_key |-> "returns",
            set_answer |-> "returns", set_error |-> "returns"],
     log |-> <<>>, propagated |-> "none"]

\* The call of sentence() by the query processor, once per query
Sentence(result, env, q) ==
    LET run == sentence(result, env, q)
    IN  /\ qs' = [called |-> TRUE, result |-> result, env |-> env, q |-> q,
                  log |-> run.log, propagated |-> run.out]
        /\ UNCHANGED <<rd, nk, nrows, register, rc, ntokens, query, seen, resp, wq, dw, corpus, ls>>

-----------------------------------------------------------------------------
(* make_response_list: text tests and sorting *)

\* a in b, for strings
IsSubstring(a, b) ==
    \E i \in 1..(Len(b) - Len(a) + 1) : SubSeq(b, i, i + Len(a) - 1) = a

\* contained(needle, haystack): needle occurs in haystack as whole words
contained(needle, haystack) ==
    IsSubstring(<<32>> \o Lower(needle) \o <<32>>,
                <<32>> \o Lower(haystack) \o <<32>>)

\* The words that mark a title as a former one: "fyrrverandi",
\* "fr\xe1farandi", "\xe1\xf0ur", "\xfe\xe1verandi" and "fyrrum"
ExMarkers ==
    << <<102, 121, 114, 114, 118, 101, 114, 97, 110, 100, 105>>,
       <<102, 114, 225, 102, 97, 114, 97, 110, 100, 105>>,
       <<225, 240, 117, 114>>,
       <<254, 225, 118, 101, 114, 97, 110, 100, 105>>,
       <<102, 121, 114, 114, 117, 109>> >>

\* is_ex(s): s holds one of the markers as a whole word
is_ex(s) == \E m \in 1..Len(ExMarkers) : contained(ExMarkers[m], s)

\* sorted(items, key=..., reverse=True) on a sequence of [item, k] with
\* integer keys: by descending k, items of equal k in their original order;
\* ps is the list with the key of each item computed once
SortedAscending(pairs) ==
    LET n == Len(pairs)
        ps == SubSeq(pairs, 1, n)
        pos(i) == 1 + Cardinality({j \in 1..n : ps[j].k < ps[i].k})
                    + Cardinality({j \in 1..(i - 1) : ps[j].k = ps[i].k})
    IN  [p \in 1..n |-> ps[CHOOSE i \in 1..n : pos(i) = p].item]

SortedDescending(pairs) ==
    LET n == Len(pairs)
        ps == SubSeq(pairs, 1, n)
        pos(i) == 1 + Cardinality({j \in 1..n : ps[j].k > ps[i].k})
                    + Cardinality({j \in 1..(i - 1) : ps[j].k = ps[i].k})
    IN  [p \in 1..n |-> ps[CHOOSE i \in 1..n : pos(i) = p].item]

\* The same with float keys
SortedDescendingFloat(pairs) ==
    LET n == Len(pairs)
        ps == SubSeq(pairs, 1, n)
        pos(i) == 1 + Cardinality({j \in 1..n : FloatLess(ps[i].k, ps[j].k)})
                    + Cardinality({j \in 1..(i - 1) : ps[j].k = ps[i].k})
    IN  [p \in 1..n |-> ps[CHOOSE i \in 1..n : pos(i) = p].item]

\* sort_articles(articles): the descriptors of a bucket, newest first
sort_articles(articles) ==
    SortedDescending([i \in 1..Len(articles) |->
        [item |-> articles[i].val, k |-> articles[i].val.timestamp]])

\* seq[0:n]
Prefix(seq, n) == SubSeq(seq, 1, IF Len(seq) < n THEN Len(seq) ELSE n)

-----------------------------------------------------------------------------
(* make_response_list: weights *)

_MAXLEN_ANSWER == 20
_CUTOFF_AFTER == 4
_MAX_URLS == 5
_MAX_MENTIONS == 5

\* datetime.utcnow() at the call, as a day number
Now == 30

\* 14.0 / (1.0 + math.log(age + 4, 4)) for age = 0, 1, ..., 60
AgeDecayTable ==
    << <<0, 0, 0, 0, 7>>, <<15360, 22825, 14289, 15682, 6>>, <<21504, 11981,
       18360, 3503, 6>>, <<30720, 25507, 7386, 27014, 5>>, <<6144, 13107,
       26214, 19660, 5>>, <<12288, 1098, 16352, 13629, 5>>, <<12288, 29176,
       22143, 8560, 5>>, <<20480, 4853, 17052, 4218, 5>>, <<23552, 17227,
       4549, 441, 5>>, <<31744, 28917, 6472, 29881, 4>>, <<25600, 21734,
       32744, 26917, 4>>, <<15360, 11946, 24433, 24255, 4>>, <<11264, 21845,
       10922, 21845, 4>>, <<10240, 20879, 8615, 19648, 4>>, <<19456, 807,
       28162, 17633, 4>>, <<5120, 25436, 10974, 15777, 4>>, <<2048, 28415,
       13349, 14058, 4>>, <<29696, 16854, 9717, 12460, 4>>, <<10240, 2022,
       32126, 10968, 4>>, <<24576, 28107, 20856, 9572, 4>>, <<9216, 20391,
       7065, 8261, 4>>, <<31744, 23637, 3688, 7026, 4>>, <<24576, 19029,
       29777, 5859, 4>>, <<0, 28656, 5531, 4756, 4>>, <<8192, 26940, 9127,
       3709, 4>>, <<20480, 25864, 10294, 2714, 4>>, <<23552, 11053, 30681,
       1766, 4>>, <<12288, 8971, 9941, 863, 4>>, <<0, 0, 0, 0, 4>>, <<2048,
       5169, 32040, 31941, 3>>, <<2048, 13522, 16576, 31150, 3>>, <<27648,
       11923, 4238, 30391, 3>>, <<23552, 18850, 20781, 29661, 3>>, <<7168,
       22031, 576, 28960, 3>>, <<30720, 4022, 15154, 28284, 3>>, <<31744,
       9285, 10348, 27633, 3>>, <<23040, 31684, 2292, 27005, 3>>, <<15360,
       15239, 11356, 26398, 3>>, <<25088, 29039, 28914, 25811, 3>>, <<7680,
       43, 16953, 25244, 3>>, <<9728, 21775, 6019, 24695, 3>>, <<2048, 12801,
       29386, 24162, 3>>, <<16384, 29495, 24474, 23646, 3>>, <<27136, 14611,
       29228, 23145, 3>>, <<12288, 18331, 18062, 22659, 3>>, <<22528, 17374,
       32751, 22186, 3>>, <<5632, 16223, 18423, 21727, 3>>, <<6656, 15655,
       20021, 21280, 3>>, <<16896, 3589, 18332, 20845, 3>>, <<25600, 2819,
       28172, 20421, 3>>, <<18432, 22577, 32746, 20008, 3>>, <<3584, 30562,
       16322, 19606, 3>>, <<11264, 2935, 29680, 19213, 3>>, <<9216, 16906,
       26192, 18830, 3>>, <<12288, 27473, 25599, 18456, 3>>, <<22016, 22419,
       15639, 18091, 3>>, <<30208, 7855, 17526, 17734, 3>>, <<17920, 409,
       20362, 17385, 3>>, <<32256, 8054, 13858, 17044, 3>>, <<14336, 16510,
       21059, 16710, 3>>, <<0, 0, 0, 16384, 3>> >>

\* (0.0 + 14.0 / (1.0 + math.log(age + 4, 4))) / math.e for age = 0, 1, ...,
\* 60
SingleMentionTable ==
    << <<8704, 7493, 23419, 18846, 2>>, <<10240, 6869, 9404, 12561, 2>>,
       <<10240, 26996, 30440, 8080, 2>>, <<7168, 498, 11331, 4675, 2>>,
       <<19968, 5994, 5628, 1970, 2>>, <<28928, 31845, 12455, 32519, 1>>,
       <<28416, 18413, 21766, 30654, 1>>, <<31744, 31284, 8996, 29057, 1>>,
       <<1792, 19025, 21415, 27667, 1>>, <<23296, 21030, 12201, 26443, 1>>,
       <<27648, 4978, 8934, 25353, 1>>, <<32000, 21746, 28975, 24373, 1>>,
       <<16896, 4995, 4690, 23487, 1>>, <<22016, 23004, 29035, 22678, 1>>,
       <<15616, 8408, 27147, 21937, 1>>, <<14336, 11558, 27894, 21254, 1>>,
       <<7168, 9984, 16160, 20622, 1>>, <<24064, 24200, 19039, 20034, 1>>,
       <<11008, 15669, 31342, 19485, 1>>, <<30720, 17177, 8856, 18972, 1>>,
       <<15104, 544, 27050, 18489, 1>>, <<18688, 30039, 14957, 18035, 1>>,
       <<4864, 15211, 14223, 17606, 1>>, <<15616, 2150, 12807, 17200, 1>>,
       <<16896, 24795, 8566, 16815, 1>>, <<5888, 29467, 7683, 16449, 1>>,
       <<12288, 6105, 23385, 16100, 1>>, <<27648, 4825, 9361, 15768, 1>>,
       <<14336, 23006, 22744, 15450, 1>>, <<23552, 19972, 26788, 15146, 1>>,
       <<11008, 1793, 21341, 14855, 1>>, <<5376, 30548, 9576, 14576, 1>>,
       <<15360, 5372, 30343, 14307, 1>>, <<26880, 1710, 26728, 14049, 1>>,
       <<32256, 16101, 9595, 13801, 1>>, <<29696, 1800, 24555, 13561, 1>>,
       <<25088, 22736, 20664, 13330, 1>>, <<7168, 4483, 14076, 13107, 1>>,
       <<27648, 5172, 22330, 12891, 1>>, <<512, 24110, 31441, 12682, 1>>,
       <<2560, 26834, 28539, 12480, 1>>, <<13824, 31669, 1754, 12285, 1>>,
       <<512, 19316, 5656, 12095, 1>>, <<20736, 28952, 30093, 11910, 1>>,
       <<1792, 27811, 118, 11732, 1>>, <<17920, 1317, 5294, 11558, 1>>,
       <<1536, 29529, 4719, 11389, 1>>, <<30976, 22903, 23588, 11224, 1>>,
       <<9216, 7547, 22064, 11064, 1>>, <<6912, 18985, 26310, 10908, 1>>,
       <<29952, 10307, 30149, 10756, 1>>, <<22272, 19460, 27792, 10608, 1>>,
       <<12032, 23615, 13811, 10464, 1>>, <<16128, 24664, 15876, 10323, 1>>,
       <<28160, 26844, 29194, 10185, 1>>, <<9728, 27703, 16486, 10051, 1>>,
       <<28928, 13789, 6270, 9920, 1>>, <<12544, 19069, 27304, 9791, 1>>,
       <<16384, 10051, 10268, 9666, 1>>, <<17664, 17795, 17120, 9543, 1>>,
       <<20736, 20130, 11709, 9423, 1>> >>

\* max(0, (now - a["timestamp"]).days)
Age(a) == IF Now - a.timestamp < 0 THEN 0 ELSE Now - a.timestamp

\* 14.0 / div_factor
MentionValue(a) == AgeDecayTable[Age(a) + 1]

\* w after `w += 14.0 / div_factor` for the mentions from the i-th on
RECURSIVE MentionSum(_, _, _)
MentionSum(mentions, i, w) ==
    IF i > Len(mentions) THEN w
    ELSE MentionSum(mentions, i + 1, FloatAdd(w, MentionValue(mentions[i])))

\* mention_weight(articles): the sum over the newest mentions, from the
\* newest on and starting from 0.0, divided by e when there is exactly one
mention_weight_all(articles) ==
    LET newest_mentions == sort_articles(articles)
    IN  IF Len(newest_mentions) = 1
        THEN SingleMentionTable[Age(newest_mentions[1]) + 1]
        ELSE MentionSum(newest_mentions, 1, <<>>)

mention_weight(articles) ==
    LET newest_mentions == Prefix(sort_articles(articles), _MAX_MENTIONS)
    IN  IF Len(newest_mentions) = 1
        THEN SingleMentionTable[Age(newest_mentions[1]) + 1]
        ELSE MentionSum(newest_mentions, 1, <<>>)

\* min(math.e * math.log(n), 10.0) for n = 1, 2, ..., 40; it is 10.0 from
\* 40 on
LengthWeightTable ==
    << <<>>, <<512, 18527, 15152, 28972, 1>>, <<27136, 26047, 10410, 32320,
       2>>, <<1024, 4286, 30305, 25176, 3>>, <<20480, 7816, 29959, 12284,
       4>>, <<27648, 11806, 25563, 28524, 4>>, <<28672, 12375, 12814, 9487,
       5>>, <<1024, 22813, 12689, 21381, 5>>, <<21504, 19327, 20821, 31872,
       5>>, <<21504, 26343, 12343, 8489, 6>>, <<27648, 7228, 29748, 16978,
       6>>, <<28672, 30333, 7947, 24729, 6>>, <<27648, 10089, 28159, 31858,
       6>>, <<28672, 30902, 27966, 5691, 7>>, <<15360, 1096, 7602, 11837,
       7>>, <<2048, 8572, 27842, 17585, 7>>, <<30720, 26814, 27719, 22985,
       7>>, <<21504, 5086, 3206, 28077, 7>>, <<16384, 2422, 295, 125, 8>>,
       <<20480, 12102, 27496, 4693, 8>>, <<22528, 5655, 23225, 9039, 8>>,
       <<28672, 25755, 12132, 13183, 8>>, <<22528, 5220, 26442, 17142, 8>>,
       <<28672, 16092, 23100, 20933, 8>>, <<8192, 15633, 27150, 24569, 8>>,
       <<28672, 28616, 10543, 28063, 8>>, <<16384, 12607, 31232, 31424, 8>>,
       <<30720, 16661, 10351, 1896, 9>>, <<16384, 24486, 32540, 5021, 9>>,
       <<16384, 19623, 22754, 8041, 9>>, <<4096, 28995, 12160, 10962, 9>>,
       <<2048, 27099, 10226, 13790, 9>>, <<22528, 508, 7391, 16531, 9>>,
       <<30720, 12573, 10104, 19190, 9>>, <<16384, 20192, 10005, 21772, 9>>,
       <<22528, 23613, 18358, 24281, 9>>, <<22528, 26160, 1957, 26722, 9>>,
       <<16384, 20949, 15447, 29097, 9>>, <<20480, 3369, 5802, 31411, 9>>,
       <<0, 0, 0, 0, 10>> >>

\* length_weight(result), of a result that is not empty: math.log(0) raises
\* ValueError
length_weight(result) ==
    IF Len(result) >= Len(LengthWeightTable)
    THEN LengthWeightTable[Len(LengthWeightTable)]
    ELSE LengthWeightTable[Len(result)]

-----------------------------------------------------------------------------
(* make_response_list: scores *)

\* math.e
MathE == <<20992, 20829, 21592, 23536, 2>>

\* CROSS_MENTION_FACTOR = 0.20 and EX_MENTION_FACTOR = 0.35
CROSS_MENTION_FACTOR == <<13120, 26214, 19660, 6553>>
EX_MENTION_FACTOR == <<6528, 13107, 26214, 11468>>

\* mention_weights after the loop over rd.items()
MentionWeights(d) ==
    [k \in {d[i].key : i \in 1..Len(d)} |-> mention_weight(Get(d, k))]

\* scores after the loop over rd.items()
BaseScores(d) ==
    [k \in {d[i].key : i \in 1..Len(d)} |->
        FloatAdd(mention_weight(Get(d, k)), length_weight(k))]

\* rl = sorted(rd.keys(), key=lambda x: mention_weights[x], reverse=True)
KeysByMentionWeight(d) ==
    SortedDescendingFloat([i \in 1..Len(d) |->
        [item |-> d[i].key, k |-> mention_weight(d[i].val)]])

\* contained(rj, ri) or contained(ri, rj)
Crossing(ri, rj) == contained(rj, ri) \/ contained(ri, rj)

\* scores[to] += add
AddScore(scores, to, add) == [scores EXCEPT ![to] = FloatAdd(@, add)]

\* mention_weights[r] * EX_MENTION_FACTOR
ExBonus(mw, r) == FloatTimes(mw[r], EX_MENTION_FACTOR)

\* mention_weights[r] * CROSS_MENTION_FACTOR / crosses
DecayedBonus(mw, r, crosses) ==
    FloatOver(FloatTimes(mw[r], CROSS_MENTION_FACTOR), crosses)

\* The two if/else statements on a crossing pair, crosses counting this one
CrossBonusExclusive(scores, mw, ri, rj, crosses) ==
    LET ex_i == is_ex(ri)
        ex_j == is_ex(rj)
    IN  IF ex_i /\ ~ex_j
        THEN AddScore(scores, ri, ExBonus(mw, rj))
        ELSE IF ex_j /\ ~ex_i
        THEN AddScore(scores, rj, ExBonus(mw, ri))
        ELSE AddScore(AddScore(scores, rj, DecayedBonus(mw, ri, crosses)),
                      ri, DecayedBonus(mw, rj, crosses))

CrossBonusUndecayed(scores, mw, ri, rj, crosses) ==
    LET ex_i == is_ex(ri)
        ex_j == is_ex(rj)
        first == IF ex_i /\ ~ex_j
                 THEN AddScore(scores, ri, ExBonus(mw, rj))
                 ELSE AddScore(scores, rj, DecayedBonus(mw, ri, crosses))
    IN  IF ex_j /\ ~ex_i
        THEN AddScore(first, rj, ExBonus(mw, ri))
        ELSE AddScore(first, ri, FloatTimes(mw[rj], CROSS_MENTION_FACTOR))

CrossBonus(scores, mw, ri, rj, crosses) ==
    LET ex_i == is_ex(ri)
        ex_j == is_ex(rj)
        first == IF ex_i /\ ~ex_j
                 THEN AddScore(scores, ri, ExBonus(mw, rj))
                 ELSE AddScore(scores, rj, DecayedBonus(mw, ri, crosses))
    IN  IF ex_j /\ ~ex_i
        THEN AddScore(first, rj, ExBonus(mw, ri))
        ELSE AddScore(first, ri, DecayedBonus(mw, rj, crosses))

\* if crosses == _MAX_MENTIONS: break
BreakNever(crosses) == FALSE

BreakAfter(crosses) == crosses = _MAX_MENTIONS

\* The j of `for j in range(i + 1, len_rl)` that pass the test
\* `contained(rj, ri) or contained(ri, rj)`, in order
Partners(rl, i) ==
    SelectSeq([n \in 1..(Len(rl) - i) |-> i + n], LAMBDA j : Crossing(rl[i], rl[j]))

\* The partners that `for j` reaches before it breaks: crosses is 1 at the
\* first of them, 2 at the second, ...
Counted(rl, i) ==
    LET js == Partners(rl, i)
        breaks == {c \in 1..Len(js) : BreakAfter(c)}
    IN  IF breaks = {} THEN js
        ELSE SubSeq(js, 1, CHOOSE c \in breaks : \A b \in breaks : c <= b)

\* The crossing pairs that the two loops reach from i on, in the order in
\* which they reach them
RECURSIVE Visits(_, _)
Visits(rl, i) ==
    IF i > Len(rl) - 1 THEN <<>>
    ELSE [c \in 1..Len(Counted(rl, i)) |->
             [i |-> i, j |-> Counted(rl, i)[c], crosses |-> c]]
         \o Visits(rl, i + 1)

\* The cross-add on the pairs reached, one after the other; st holds the
\* scores and the pairs done, with the scores before and after each
RECURSIVE CrossAdd(_, _, _, _)
CrossAdd(rl, mw, visits, st) ==
    IF visits = <<>> THEN st
    ELSE LET v == Head(visits)
             after == CrossBonus(st.scores, mw, rl[v.i], rl[v.j], v.crosses)
         IN  CrossAdd(rl, mw, Tail(visits),
                 [scores |-> after,
                  events |-> Append(st.events,
                      [i |-> v.i, j |-> v.j, ri |-> rl[v.i], rj |-> rl[v.j],
                       crosses |-> v.crosses,
                       before |-> st.scores, after |-> after])])

\* The pass over all pairs of the result list
CrossPass(d) ==
    CrossAdd(KeysByMentionWeight(d), MentionWeights(d),
             Visits(KeysByMentionWeight(d), 1),
             [scores |-> BaseScores(d), events |-> <<>>])

\* rl = sorted([(s, sort_articles(articles)) ...], key=scores, reverse=True)
RankedByScore(d, scores) ==
    SortedDescendingFloat([i \in 1..Len(d) |->
        [item |-> [answer |-> d[i].key, sources |-> sort_articles(d[i].val)],
         k |-> scores[d[i].key]]])

\* [val for val in rl if len(val[1]) > 1]
SeveralSources(rl) == SelectSeq(rl, LAMBDA val : Len(val.sources) > 1)

\* The cutoff of the answers that have only one source
CutoffAtLimit(rl) ==
    IF Len(rl) >= _CUTOFF_AFTER /\ Len(rl[_CUTOFF_AFTER].sources) > 1
    THEN SeveralSources(rl)
    ELSE rl

Cutoff(rl) ==
    IF Len(rl) > _CUTOFF_AFTER /\ Len(rl[_CUTOFF_AFTER + 1].sources) > 1
    THEN SeveralSources(rl)
    ELSE rl

\* [dict(answer=a[0], sources=a[1][0:_MAX_URLS]) for a in rl[0:_MAXLEN_ANSWER]]
Crop(rl) ==
    LET top == Prefix(rl, _MAXLEN_ANSWER)
    IN  [i \in 1..Len(top) |->
            [answer |-> top[i].answer, sources |-> Prefix(top[i].sources, _MAX_URLS)]]

\* What the call is when length_weight raises
MathDomainError == [done |-> FALSE, raised |-> "math domain error"]

\* make_response_list(rd): the returned list `out`, with what was computed
\* on the way; the loop over rd.items() raises ValueError at an empty result
make_response_list(d) ==
    IF \E i \in 1..Len(d) : d[i].key = <<>>
    THEN MathDomainError
    ELSE LET pass == CrossPass(d)
             ranked == RankedByScore(d, pass.scores)
         IN  [done |-> TRUE,
              mention_weights |-> MentionWeights(d),
              rl |-> KeysByMentionWeight(d),
              events |-> pass.events,
              scores |-> pass.scores,
              ranked |-> ranked,
              out |-> Crop(Cutoff(ranked))]

Idle == [done |-> FALSE]

-----------------------------------------------------------------------------
(* Bucket tables for make_response_list *)

\* "forseti"
Forseti == <<102, 111, 114, 115, 101, 116, 105>>
\* "Forseti Islands"
ForsetiIslands ==
    <<70, 111, 114, 115, 101, 116, 105, 32, 73, 115, 108, 97, 110, 100,
      115>>
\* "fyrrum forseti"
FyrrumForseti ==
    <<102, 121, 114, 114, 117, 109, 32, 102, 111, 114, 115, 101, 116, 105>>
\* "fyrrverandi forseti Islands"
FyrrverandiForsetiIslands ==
    <<102, 121, 114, 114, 118, 101, 114, 97, 110, 100, 105, 32, 102, 111,
      114, 115, 101, 116, 105, 32, 73, 115, 108, 97, 110, 100, 115>>
\* "ritari"
Ritari == <<114, 105, 116, 97, 114, 105>>
\* "forsetinn"
Forsetinn == <<102, 111, 114, 115, 101, 116, 105, 110, 110>>
\* "\xc1\xf0ur ritari", with capital a-acute and eth
AdurRitari == <<193, 240, 117, 114, 32, 114, 105, 116, 97, 114, 105>>
\* "formadur"
Formadur == <<102, 111, 114, 109, 97, 100, 117, 114>>
\* "a"
A == <<97>>
\* "framkvaemdastjori Samtaka atvinnulifsins"
Framkvaemdastjori ==
    <<102, 114, 97, 109, 107, 118, 97, 101, 109, 100, 97, 115, 116, 106,
      111, 114, 105, 32, 83, 97, 109, 116, 97, 107, 97, 32, 97, 116, 118,
      105, 110, 110, 117, 108, 105, 102, 115, 105, 110, 115>>

\* The texts of small tables: titles that contain one another as whole
\* words, with and without a marker, and titles that do not
Texts ==
    { Forseti, ForsetiIslands, FyrrumForseti, FyrrverandiForsetiIslands,
      Ritari, AdurRitari }

\* A mention of article `uuid` published on day `timestamp`
Mention(uuid, timestamp) ==
    [key |-> uuid, val |-> [uuid |-> uuid, timestamp |-> timestamp]]

\* Buckets in insertion order: one mention of today, one old mention, one
\* mention dated after Now, two mentions, two old mentions, seven mentions
Single == <<Mention(1, 30)>>
SingleOld == <<Mention(6, 10)>>
SingleFuture == <<Mention(7, 35)>>
Double == <<Mention(2, 29), Mention(1, 30)>>
DoubleOld == <<Mention(6, 10), Mention(5, 20)>>
Seven ==
    <<Mention(6, 10), Mention(5, 20), Mention(4, 25), Mention(3, 28),
      Mention(2, 29), Mention(1, 30), Mention(7, 35)>>

\* The buckets of small tables
Buckets == {SingleFuture, Double, Seven}

\* Largest number of buckets of a small table
MaxBuckets == 2

\* The tables of up to MaxBuckets buckets with distinct texts
SmallTables ==
    UNION { { [i \in 1..n |-> [key |-> ks[i], val |-> bs[i]]] :
                ks \in {f \in [1..n -> Texts] : \A i, j \in 1..n : i # j => f[i] # f[j]},
                bs \in [1..n -> Buckets] } : n \in 0..MaxBuckets }

\* Tables of four to six texts that do not contain one another as whole
\* words, each with
\* one, two or two old mentions
CutoffTexts == <<Ritari, Forseti, Forsetinn, Formadur, A, Framkvaemdastjori>>

CutoffTables ==
    UNION { { [i \in 1..n |-> [key |-> CutoffTexts[i], val |-> bs[i]]] :
                bs \in [1..n -> {Single, Double, DoubleOld}] } : n \in 4..6 }

\* Tables longer than the answer list: "forseti" and titles "forseti x"
\* that all contain it and do not contain one another
\* "abcdefghijklmnopqrstuvwxyz"
Letters ==
    <<97, 98, 99, 100, 101, 102, 103, 104, 105, 106, 107, 108, 109, 110,
      111, 112, 113, 114, 115, 116, 117, 118, 119, 120, 121, 122>>

LongText(i) == IF i = 1 THEN Forseti ELSE Forseti \o <<32, Letters[i - 1]>>

LongBucket(pattern, i) ==
    IF i = 1 THEN (IF pattern = "weak" THEN SingleOld ELSE Seven)
    ELSE IF pattern = "mixed" /\ i % 3 = 0 THEN Single
    ELSE Double

LongTables ==
    { [i \in 1..n |-> [key |-> LongText(i), val |-> LongBucket(pattern, i)]] :
        n \in {21, 22}, pattern \in {"strong", "mixed", "weak"} }

\* Tables of the four titles around "forseti", with and without a marker,
\* in two insertion orders
MarkerTexts ==
    { <<Forseti, ForsetiIslands, FyrrumForseti, FyrrverandiForsetiIslands>>,
      <<FyrrverandiForsetiIslands, FyrrumForseti, ForsetiIslands, Forseti>> }

MarkerTables ==
    { [i \in 1..4 |-> [key |-> ks[i], val |-> bs[i]]] :
        ks \in MarkerTexts, bs \in [1..4 -> {Single, Double, Seven}] }

\* Buckets whose mention weights are close or the same: 14/(1 + log4(11))
\* + 14/(1 + log4(16)) is a little less than 14/(1 + log4(10))
\* + 14/(1 + log4(14)), and 7.0 + 7.0 is 14.0/3 + 14.0/3 + 14.0/3
Days5And12 == <<Mention(1, 25), Mention(2, 18)>>
Days6And10 == <<Mention(1, 24), Mention(2, 20)>>
TwiceToday == <<Mention(1, 30), Mention(2, 30)>>
ThriceDay12 == <<Mention(1, 18), Mention(2, 18), Mention(3, 18)>>

\* Tables of two titles with such buckets
CloseTables ==
    { <<[key |-> ks[1], val |-> bs[1]], [key |-> ks[2], val |-> bs[2]]>> :
        ks \in {<<Ritari, Forseti>>, <<Forseti, ForsetiIslands>>},
        bs \in [1..2 -> {Days5And12, Days6And10, TwiceToday, ThriceDay12}] }

\* A table with a title that is the empty string
EmptyTitleTables ==
    { <<[key |-> Ritari, val |-> Double], [key |-> <<>>, val |-> Single]>> }

BucketTables ==
    SmallTables \cup CutoffTables \cup LongTables \cup MarkerTables
        \cup CloseTables \cup EmptyTitleTables

-----------------------------------------------------------------------------
(* The call of make_response_list *)

\* rl = make_response_list(rd), once
MakeResponseList ==
    /\ resp = Idle
    /\ resp' = make_response_list(rd)
    /\ UNCHANGED <<rd, nk, nrows, register, rc, ntokens, qs, query, seen, wq, dw, corpus, ls>>

-----------------------------------------------------------------------------
(* append_answers *)

\* Largest number of rows that the calls of append_answers consume together
MaxAnswerRows == 3

\* The texts prop_func(p) of the rows, as stored: two of them differ in
\* spacing only
RawAnswerTexts ==
    { Ritari, ForsetiIslands, JoinWith(<<32, 32>>, Split(ForsetiIslands)) }

\* The articles of the rows: Article.id and what is carried with it
AnswerArticles ==
    { [id |-> 1, timestamp |-> 10], [id |-> 1, timestamp |-> 20],
      [id |-> 2, timestamp |-> 20] }

AnswerRows == [text : RawAnswerTexts, article : AnswerArticles]

\* A query of seven rows of one text from seven articles
LongQuery ==
    [i \in 1..7 |-> [text |-> ForsetiIslands, article |-> [id |-> i, timestamp |-> 30 - i]]]

\* The queries q of a call that has n rows left to consume
QueriesUpTo(n) == UNION {[1..len -> AnswerRows] : len \in 1..n}

\* append_answers(rd, q, prop_func), prop_func(p) being p.text
RECURSIVE append_answers(_, _)
append_answers(d, q) ==
    IF q = <<>> THEN d
    ELSE append_answers(
             AddMention(d, correct_spaces(Head(q).text), ArticleDescriptor(Head(q))),
             Tail(q))

\* One call of append_answers on rd
AppendAnswersCall(q) ==
    /\ rd' = append_answers(rd, q)
    /\ query' = query \o q
    /\ seen' = seen \o [i \in 1..Len(q) |-> ArticleDescriptor(q[i])]
    /\ nrows' = nrows + Len(q)
    /\ UNCHANGED <<nk, register, rc, ntokens, qs, resp, wq, dw, corpus, ls>>

AppendAnswers ==
    \/ \E q \in QueriesUpTo(MaxAnswerRows - nrows) : AppendAnswersCall(q)
    \/ nrows = 0 /\ AppendAnswersCall(LongQuery)

-----------------------------------------------------------------------------
(* query_word *)

\* Largest number of rows that RelatedWordsQuery.rel returns
MaxRelated == 3

\* The stems asked about, and the stems and categories of related words
WordStems == {"hestur", "hross"}
RelatedStems == {"hestur", "hross", "folald"}
WordCategories == {"kk", "hk"}

\* What ArticleCountQuery.count can return
ArticleCounts == {0, 1, 2}

\* A row (rstem, rcat, rcnt) of RelatedWordsQuery.rel
RelatedRows == [stem : RelatedStems, cat : WordCategories, cnt : {1}]

\* What RelatedWordsQuery.rel would return
RelatedLists == UNION {[1..n -> RelatedRows] : n \in 0..MaxRelated}

\* [dict(stem=rstem, cat=rcat) for rstem, rcat, rcnt in rlist if rstem != stem]
RelatedAnswers(rlist, stem) ==
    LET kept == SelectSeq(rlist, LAMBDA r : r.stem # stem)
    IN  [i \in 1..Len(kept) |-> [stem |-> kept[i].stem, cat |-> kept[i].cat]]

query_word_lookup_always(stem, acnt, rel) ==
    [count |-> acnt,
     answers |-> RelatedAnswers(IF acnt # 0 THEN rel ELSE <<>>, stem),
     lookups |-> 1]

\* query_word(query, session, stem), acnt being what ArticleCountQuery.count
\* returns and rel what RelatedWordsQuery.rel would return: the dict
\* returned, with the number of calls of RelatedWordsQuery.rel
query_word(stem, acnt, rel) ==
    LET rlist == IF acnt # 0 THEN rel ELSE <<>>
    IN  [count |-> acnt,
         answers |-> RelatedAnswers(rlist, stem),
         lookups |-> IF acnt # 0 THEN 1 ELSE 0]

NoWordQuery ==
    [called |-> FALSE, stem |-> "", acnt |-> 0, rel |-> <<>>, ret |-> <<>>]

\* One call of query_word
QueryWord(stem, acnt, rel) ==
    /\ wq' = [called |-> TRUE, stem |-> stem, acnt |-> acnt, rel |-> rel,
              ret |-> query_word(stem, acnt, rel)]
    /\ UNCHANGED <<rd, nk, nrows, register, rc, ntokens, qs, query, seen, resp, dw, corpus, ls>>

-----------------------------------------------------------------------------
(* declension_answer_for_word: the four case forms of a word *)

MaxMeanings == 2

\* "hestur"
Hestur == <<104, 101, 115, 116, 117, 114>>
\* "Jon"
Jon == <<74, 111, 110>>
\* "Akur"
Akur == <<65, 107, 117, 114>>

\* "\xddmir", with capital y-acute
Ymir == <<221, 109, 105, 114>>

\* The nominative forms that the morphological database may hold
DbWords == {Hestur, Jon, Akur, Ymir}

\* A database gives each nominative form a number of meanings, 0 when
\* the form is not in it
Databases == [DbWords -> 0..MaxMeanings]

\* The words asked about: "hestur", "Hestur", "Jon", "jon", "jON", "akur",
\* "orf", "\xfdmir" and "\xfdMIR"
AskedWords ==
    { Hestur, <<72, 101, 115, 116, 117, 114>>, Jon, <<106, 111, 110>>,
      <<106, 79, 78>>, <<97, 107, 117, 114>>, <<111, 114, 102>>,
      <<253, 109, 105, 114>>, <<253, 77, 73, 82>> }

\* db.lookup_nominative(word): the meanings that have word as nominative
lookup_nominative(db, word) ==
    IF word \in DOMAIN db
    THEN [i \in 1..db[word] |-> [stofn |-> word, meaning |-> i]]
    ELSE <<>>

\* lookup_best_word(word) on database db: ret is what it returns, m the
\* meaning it picked.  The statements that compute the four case forms and
\* return them are indented into the nested function sort_by_preference,
\* after its return, so the with block ends after the definition of
\* sort_by_preference and lookup_best_word returns nothing.
lookup_best_word(db, word) ==
    LET first == lookup_nominative(db, word)
        res == IF first # <<>> THEN first
               ELSE lookup_nominative(db, capitalize(word))
    IN  IF res = <<>>
        THEN [ret |-> None, m |-> None]
        ELSE [ret |-> None, m |-> res[1]]

\* _NOT_IN_BIN_MSG.format(word)
NotInBin(word) == [msg |-> "_NOT_IN_BIN_MSG", word |-> word]

\* declension_answer_for_word(word, query) on database db: the answer
\* returned and the type and key of the query afterwards
declension_answer_for_word(db, word) ==
    LET forms == lookup_best_word(db, word).ret
    IN  IF forms = None
        THEN [forms |-> forms, answer |-> NotInBin(word),
              qtype |-> None, key |-> None]
        ELSE [forms |-> forms, answer |-> JoinWith(<<44, 32>>, forms),
              qtype |-> "Declension", key |-> word]

NoDeclension == [called |-> FALSE]

DeclensionAnswer(db, word) ==
    /\ dw' = [called |-> TRUE, db |-> db, word |-> word,
              m |-> lookup_best_word(db, word).m,
              ret |-> declension_answer_for_word(db, word)]
    /\ UNCHANGED <<rd, nk, nrows, register, rc, ntokens, qs, query, seen,
                   resp, wq, corpus, ls>>

-----------------------------------------------------------------------------
(* gencorp main: the corpus export loop *)

\* MAX_BATCH, the number of trees accumulated before a batch is written.
\* It is 10000 in the source and is scaled down here, so that full batches
\* and partial batches both occur within MaxTrees trees.
MAX_BATCH == 2

\* The most trees that the generator yields
MaxTrees == 5

\* The largest num_sent asked for
MaxNumSent == 5

\* The orderings of sequence s, which is what random.shuffle may leave
Shuffles(s) ==
    { [i \in 1..Len(s) |-> s[f[i]]] :
        f \in { g \in [1..Len(s) -> 1..Len(s)] :
                  \A a, b \in 1..Len(s) : a # b => g[a] # g[b] } }

NoExport == [started |-> FALSE]

\* main(num_sent, parse_date_gt, outfile) up to the loop, with a generator
\* that will yield the trees 1..ntrees: nothing accumulated, total 0, the
\* output file opened empty
StartExport(num_sent, ntrees) ==
    /\ ~corpus.started
    /\ corpus' = [started |-> TRUE, num_sent |-> num_sent, ntrees |-> ntrees,
                  consumed |-> 0, accumulated |-> <<>>, total |-> 0,
                  file |-> <<>>, returned |-> FALSE]
    /\ UNCHANGED <<rd, nk, nrows, register, rc, ntokens, qs, query, seen,
                   resp, wq, dw, ls>>

\* One iteration of the loop: the next tree is accumulated; when the batch
\* is full or final it is shuffled, written and counted; after a final
\* batch the loop is left and main returns
ConsumeTree ==
    /\ corpus.started /\ ~corpus.returned
    /\ corpus.consumed < corpus.ntrees
    /\ LET tree == corpus.consumed + 1
           accumulated == Append(corpus.accumulated, tree)
           accnum == Len(accumulated)
           final_batch == (accnum + corpus.total) >= corpus.num_sent
       IN  IF accnum = MAX_BATCH \/ final_batch
           THEN \E shuffled \in Shuffles(accumulated) :
                    corpus' = [corpus EXCEPT
                                 !.consumed = tree,
                                 !.file = corpus.file \o shuffled,
                                 !.total = corpus.total + Len(shuffled),
                                 !.accumulated = <<>>,
                                 !.returned = final_batch]
           ELSE corpus' = [corpus EXCEPT
                             !.consumed = tree,
                             !.accumulated = accumulated]
    /\ UNCHANGED <<rd, nk, nrows, register, rc, ntokens, qs, query, seen,
                   resp, wq, dw, ls>>

\* The generator is exhausted: the loop ends, the file is closed and main
\* reports the total
GeneratorExhausted ==
    /\ corpus.started /\ ~corpus.returned
    /\ corpus.consumed = corpus.ntrees
    /\ corpus' = [corpus EXCEPT !.returned = TRUE]
    /\ UNCHANGED <<rd, nk, nrows, register, rc, ntokens, qs, query, seen,
                   resp, wq, dw, ls>>


-----------------------------------------------------------------------------
(* Specifications *)

Init ==
    /\ rd = <<>>
    /\ nk = NoCall
    /\ nrows = 0
    /\ register = <<>>
    /\ rc = NoRegisterCall
    /\ ntokens = 0
    /\ qs = NoDispatch
    /\ query = <<>>
    /\ seen = <<>>
    /\ resp = Idle
    /\ wq = NoWordQuery
    /\ dw = NoDeclension
    /\ corpus = NoExport
    /\ ls = NoSearch

NextNames == AppendNames

SpecNames == Init /\ [][NextNames]_vars

NextRegister ==
    \/ \E name \in TokenPersonNames, title \in LookupResults, all_names \in BOOLEAN :
           AddName(name, title, all_names)
    \/ \E name \in TokenEntityNames, definition \in LookupResults, all_names \in BOOLEAN :
           AddEntity(name, definition, all_names)

SpecRegister == Init /\ [][NextRegister]_vars

NextSentence ==
    /\ ~qs.called
    /\ \E result \in Results, q \in QueryObjects :
           \E env \in Environments(result) : Sentence(result, env, q)

SpecSentence == Init /\ [][NextSentence]_vars

\* make_response_list on any of the bucket tables
InitRank ==
    /\ rd \in BucketTables
    /\ nk = NoCall
    /\ nrows = 0
    /\ register = <<>>
    /\ rc = NoRegisterCall
    /\ ntokens = 0
    /\ qs = NoDispatch
    /\ query = <<>>
    /\ seen = <<>>
    /\ resp = Idle
    /\ wq = NoWordQuery
    /\ dw = NoDeclension
    /\ corpus = NoExport
    /\ ls = NoSearch

NextRank == MakeResponseList

SpecRank == InitRank /\ [][NextRank]_vars

NextAnswers == AppendAnswers

SpecAnswers == Init /\ [][NextAnswers]_vars

NextWord ==
    /\ ~wq.called
    /\ \E stem \in WordStems, acnt \in ArticleCounts, rel \in RelatedLists :
           QueryWord(stem, acnt, rel)

SpecWord == Init /\ [][NextWord]_vars

NextSearch ==
    /\ ~ls.called
    /\ \E stems \in TokenStems, service \in SearchResults : LaunchSearch(stems, service)

SpecSearch == Init /\ [][NextSearch]_vars

NextDeclension ==
    /\ ~dw.called
    /\ \E db \in Databases, word \in AskedWords : DeclensionAnswer(db, word)

SpecDeclension == Init /\ [][NextDeclension]_vars

NextCorpus ==
    \/ \E num_sent \in 0..MaxNumSent, ntrees \in 0..MaxTrees :
           StartExport(num_sent, ntrees)
    \/ ConsumeTree
    \/ GeneratorExhausted

SpecCorpus == Init /\ [][NextCorpus]_vars

-----------------------------------------------------------------------------
(* Claims about name_key_to_update, checked under SpecNames *)

\* The two names have the same first token and the same last token
FirstLastEqual(a, b) ==
    LET pa == Split(a)
        pb == Split(b)
    IN  pa[1] = pb[1] /\ pa[Len(pa)] = pb[Len(pb)]

\* The middle tokens of a name
MiddleNames(a) == LET pa == Split(a) IN [i \in 1..(Len(pa) - 2) |-> pa[i + 1]]

\* a is a prefix of b
IsPrefix(a, b) == Len(a) <= Len(b) /\ \A i \in 1..Len(a) : a[i] = b[i]

\* Two middle tokens correspond: one is a prefix of the other, trailing
\* periods stripped
TokensCorrespond(x, y) ==
    IsPrefix(StripDot(x), StripDot(y)) \/ IsPrefix(StripDot(y), StripDot(x))

\* Every token of xs corresponds to some token of ys
AllCorrespond(xs, ys) ==
    \A i \in 1..Len(xs) : \E j \in 1..Len(ys) : TokensCorrespond(xs[i], ys[j])

\* The two names are judged to be the same person
JudgedSame(a, b) ==
    /\ FirstLastEqual(a, b)
    /\ \/ MiddleNames(a) = <<>>
       \/ MiddleNames(b) = <<>>
       \/ AllCorrespond(MiddleNames(a), MiddleNames(b))
       \/ AllCorrespond(MiddleNames(b), MiddleNames(a))

\* The last call was made with a name that was not a key
ScannedCall == nk.called /\ ~HasKey(nk.pre, nk.name)

\* The first key of the last call's register, in scan order, that is judged
\* to be the same person as the name; 0 when there is none
FirstMatch ==
    LET M == {i \in 1..Len(nk.pre) : JudgedSame(nk.pre[i].key, nk.name)}
    IN  IF M = {} THEN 0 ELSE CHOOSE i \in M : \A j \in M : i <= j

\* The last call moved the value of the key k to the key nk.name, dropped k
\* and touched nothing else
Migrated(k) ==
    /\ nk.ret = nk.name
    /\ ~HasKey(nk.post, k)
    /\ HasKey(nk.post, nk.name)
    /\ Get(nk.post, nk.name) = Get(nk.pre, k)
    /\ Len(nk.post) = Len(nk.pre)
    /\ \A j \in 1..Len(nk.pre) :
           nk.pre[j].key # k =>
               /\ HasKey(nk.post, nk.pre[j].key)
               /\ Get(nk.post, nk.pre[j].key) = nk.pre[j].val

\* C1: a register filled from empty through name_key_to_update never holds
\* two distinct keys that are judged to be the same person.
C1_NoTwoKeysForOnePerson ==
    \A i, j \in 1..Len(rd) : i # j => ~JudgedSame(rd[i].key, rd[j].key)

\* The case of C2: the key k, the first one judged the same person as the
\* name, has one middle token that is a proper prefix (an abbreviation) of
\* the one middle token of the name
C2_Case(k) ==
    /\ ScannedCall
    /\ FirstMatch # 0
    /\ nk.pre[FirstMatch].key = k
    /\ Len(MiddleNames(k)) = 1
    /\ Len(MiddleNames(nk.name)) = 1
    /\ LET a == StripDot(MiddleNames(k)[1])
           b == StripDot(MiddleNames(nk.name)[1])
       IN  IsPrefix(a, b) /\ a # b

\* C2 as claimed: when the existing key's middle token abbreviates the
\* candidate's, the entry is migrated to the candidate, the old key deleted
\* and the candidate returned.
C2_FullerNameSurvives ==
    \A i \in 1..Len(nk.pre) :
        C2_Case(nk.pre[i].key) =>
            /\ nk.ret = nk.name
            /\ ~HasKey(nk.post, nk.pre[i].key)
            /\ HasKey(nk.post, nk.name)
            /\ Get(nk.post, nk.name) = nk.pre[i].val

\* C2 as amended: when the existing key's middle token abbreviates the
\* candidate's (one middle token each), the existing key is returned and the
\* register is left as it was.
C2_AbbreviatedKeyKept ==
    \A i \in 1..Len(nk.pre) :
        C2_Case(nk.pre[i].key) => nk.ret = nk.pre[i].key /\ nk.post = nk.pre

C2_Witness ==
    /\ C2_Case(JoinWith(<<32>>, <<Dagur, AbbrB, Eggertsson>>))
    /\ nk.name = JoinWith(<<32>>, <<Dagur, Berg, Eggertsson>>)

\* The case of C3: the name has no middle tokens, is not a key, and some key
\* has its first and last tokens
C3_Case ==
    /\ ScannedCall
    /\ MiddleNames(nk.name) = <<>>
    /\ \E i \in 1..Len(nk.pre) : FirstLastEqual(nk.pre[i].key, nk.name)

\* C3: a name without middle tokens that meets a key with its first and last
\* tokens gets an existing key with those tokens, and the register is
\* unchanged.
C3_NoMiddleKeepsRegister ==
    C3_Case =>
        /\ HasKey(nk.pre, nk.ret)
        /\ FirstLastEqual(nk.ret, nk.name)
        /\ nk.post = nk.pre

C3_Witness == C3_Case /\ MiddleNames(nk.ret) # <<>>

\* The case of C4: the name has middle tokens and the first key in scan order
\* with its first and last tokens, the i-th, has none
C4_Case(i) ==
    /\ nk.called
    /\ MiddleNames(nk.name) # <<>>
    /\ FirstLastEqual(nk.pre[i].key, nk.name)
    /\ \A j \in 1..(i - 1) : ~FirstLastEqual(nk.pre[j].key, nk.name)
    /\ MiddleNames(nk.pre[i].key) = <<>>

\* C4: a name with middle tokens replaces a key without: the name is
\* returned, it holds the value of the old key, the old key is gone, all
\* other entries and the number of keys are unchanged.
C4_MiddleNameReplacesBareKey ==
    \A i \in 1..Len(nk.pre) : C4_Case(i) => Migrated(nk.pre[i].key)

C4_Witness == \E i \in 1..Len(nk.pre) : C4_Case(i) /\ Len(nk.pre) > 1

\* The case of C5: the name has middle tokens and is not a key
C5_Case == ScannedCall /\ MiddleNames(nk.name) # <<>>

\* C5: with middle tokens on both sides the first key that corresponds in at
\* least one direction decides: the name replaces it only with strictly more
\* middle tokens, else the key is returned and the register unchanged; keys
\* that correspond in neither direction are passed over, and when no key
\* matches the name is returned and the register unchanged.
C5_MergeByCorrespondence ==
    C5_Case =>
        IF FirstMatch = 0
        THEN nk.ret = nk.name /\ nk.post = nk.pre
        ELSE LET k == nk.pre[FirstMatch].key
             IN  MiddleNames(k) # <<>> =>
                     IF Len(MiddleNames(nk.name)) > Len(MiddleNames(k))
                     THEN Migrated(k)
                     ELSE nk.ret = k /\ nk.post = nk.pre

\* A key that corresponds in neither direction was passed over, and a later
\* key with fewer middle tokens was replaced
C5_Witness ==
    /\ C5_Case
    /\ FirstMatch > 1
    /\ \E j \in 1..(FirstMatch - 1) : FirstLastEqual(nk.pre[j].key, nk.name)
    /\ MiddleNames(nk.pre[FirstMatch].key) # <<>>
    /\ Len(MiddleNames(nk.name)) > Len(MiddleNames(nk.pre[FirstMatch].key))

-----------------------------------------------------------------------------
(* Claims about the name register, checked under SpecRegister *)

\* C6: every entry of kind "ref" has a fullname that is a key of the register
\* whose entry is not itself of kind "ref".
C6_RefsResolve ==
    \A i \in 1..Len(register) :
        register[i].val.kind = "ref" =>
            /\ HasKey(register, register[i].val.fullname)
            /\ Get(register, register[i].val.fullname).kind # "ref"

\* The keys of the register r of two or more tokens whose last token is n
LongKeysEndingIn(r, n) ==
    { r[i].key : i \in {j \in 1..Len(r) :
                           LET parts == Split(r[j].key)
                           IN  Len(parts) >= 2 /\ parts[Len(parts)] = n} }

\* The last call was add_entity_to_register with a single-token name that
\* was not a key
C7_Case == rc.op = "entity" /\ ~HasSpace(rc.name) /\ ~HasKey(rc.pre, rc.name)

\* The last call added exactly the entry rc.name -> ref to a key of K, and
\* looked no definition up
C7_RefTo(K) ==
    /\ ~rc.looked_up
    /\ \E k \in K :
           register = Append(rc.pre, [key |-> rc.name,
                                      val |-> [kind |-> "ref", fullname |-> k]])

\* C7: a single-token entity name that is not a key becomes a ref, without a
\* definition lookup, to a key of two or more tokens that ends in the name,
\* or, when there is none and the name ends in "s", to such a key that ends
\* in the name without its final "s".
C7_LastNameBecomesRef ==
    C7_Case =>
        LET stem == SubSeq(rc.name, 1, Len(rc.name) - 1)
        IN  IF LongKeysEndingIn(rc.pre, rc.name) # {}
            THEN C7_RefTo(LongKeysEndingIn(rc.pre, rc.name))
            ELSE (rc.name[Len(rc.name)] = 115 /\ LongKeysEndingIn(rc.pre, stem) # {})
                     => C7_RefTo(LongKeysEndingIn(rc.pre, stem))

\* "Clinton" and then "Clintons" after "Hillary Rodham Clinton"
C7_Witness ==
    /\ C7_Case
    /\ rc.name = Clintons
    /\ HasKey(register, Clinton)
    /\ Get(register, Clinton) =
           [kind |-> "ref",
            fullname |-> JoinWith(<<32>>, <<Hillary, Rodham, Clinton>>)]
    /\ Get(register, Clintons) =
           [kind |-> "ref",
            fullname |-> JoinWith(<<32>>, <<Hillary, Rodham, Clinton>>)]

-----------------------------------------------------------------------------
(* Claims about the dispatcher, checked under SpecSentence *)

\* How many times the dispatch called `name`
Calls(name) == Cardinality({i \in 1..Len(qs.log) : qs.log[i].call = name})

\* The dispatch got as far as calling the handler of the query type
HandlerReached ==
    /\ qs.called
    /\ qs.result.has_qtype
    /\ qs.q.set_qtype = "returns"
    /\ qs.q.set_key = "returns"
    /\ qs.result.qtype \in QFUNC

\* The search handler met a similarity service without weights
SearchUnavailable ==
    /\ qs.result.qtype = "Search"
    /\ qs.env.lookup = "returns"
    /\ (~qs.env.service.has_weights \/ Len(qs.env.service.weights) = 0)

\* The search handler got weights, but not one for each stem
SearchMismatch ==
    /\ qs.result.qtype = "Search"
    /\ qs.env.lookup = "returns"
    /\ qs.env.service.has_weights
    /\ Len(qs.env.service.weights) > 0
    /\ Len(qs.env.service.weights) # SumSeq(qs.env.stems)

\* The search handler got past query.token_list(): it raises NameError
SearchNameError ==
    /\ qs.result.qtype = "Search"
    /\ qs.env.lookup = "returns"

\* The handler raised an exception that is no assertion failure
HandlerRaised ==
    HandlerReached /\ (qs.env.lookup = "Exception" \/ SearchNameError)

\* The handler raised an assertion failure
HandlerAsserted == HandlerReached /\ qs.env.lookup = "AssertionError"

\* The handler returned an answer
HandlerReturned == HandlerReached /\ ~HandlerRaised /\ ~HandlerAsserted

\* The text of the exception the handler raised
RaisedText ==
    IF qs.env.lookup = "Exception"
    THEN "lookup failed"
    ELSE "name '_QUERY_ROOT' is not defined"

\* C8 as claimed: whatever the parse result, the handler and the query
\* object do, exactly one of set_answer and set_error is called, once.
C8_ExactlyOneOfAnswerAndError ==
    qs.called => Calls("set_answer") + Calls("set_error") = 1

\* C8 as amended: exactly one of set_answer and set_error is called, once,
\* except that neither is called when set_qtype or set_key raises or the
\* handler raises an assertion failure, and that both are called, once each,
\* when the handler returns and set_answer raises an ordinary exception.
C8_OneOfAnswerAndErrorUnlessRaised ==
    qs.called =>
        IF \/ qs.result.has_qtype /\ qs.q.set_qtype # "returns"
           \/ qs.result.has_qtype /\ qs.q.set_key # "returns"
           \/ HandlerAsserted
        THEN Calls("set_answer") = 0 /\ Calls("set_error") = 0
        ELSE IF HandlerReturned /\ qs.q.set_answer = "Exception"
             THEN Calls("set_answer") = 1 /\ Calls("set_error") = 1
             ELSE Calls("set_answer") + Calls("set_error") = 1

\* The handler raised, the query object is sound, set_error alone was called
C8_Witness ==
    /\ HandlerRaised
    /\ \A m \in DOMAIN qs.q : qs.q[m] = "returns"
    /\ Calls("set_answer") = 0
    /\ Calls("set_error") = 1

\* C9: an exception of the handler that is no assertion failure, which
\* includes the RuntimeError of launch_search when the similarity service
\* returns no or empty weights, ends in one call of set_error with
\* "E_EXCEPTION: " and its text, and does not leave sentence(): nothing
\* propagates but what set_error itself raises; an assertion failure of the
\* handler, such as the stem-count/weight-count mismatch in launch_search,
\* leaves sentence(), and set_error is not called.
C9_HandlerExceptionBecomesError ==
    /\ (HandlerReached /\ (qs.env.lookup = "Exception" \/ SearchUnavailable)) =>
           /\ Calls("set_error") = 1
           /\ Calls("set_answer") = 0
           /\ qs.log[Len(qs.log)] =
                  [call |-> "set_error",
                   args |-> <<"E_EXCEPTION: " \o
                                (IF qs.env.lookup = "Exception"
                                 THEN "lookup failed"
                                 ELSE "Unable to connect to the similarity server")>>]
           /\ qs.propagated =
                  IF qs.q.set_error = "returns" THEN "none" ELSE qs.q.set_error
    /\ (HandlerReached /\ (qs.env.lookup = "AssertionError" \/ SearchMismatch)) =>
           /\ qs.propagated = "AssertionError"
           /\ Calls("set_error") = 0

\* C10: without a qtype the one call made is
\* set_error("E_QUERY_NOT_UNDERSTOOD"); with a qtype, set_qtype is the first
\* call and set_key the second, before the handler, set_answer and set_error.
C10_TypeAndKeyFirst ==
    qs.called =>
        IF ~qs.result.has_qtype
        THEN qs.log = <<[call |-> "set_error", args |-> <<"E_QUERY_NOT_UNDERSTOOD">>]>>
        ELSE /\ Len(qs.log) >= 1
             /\ qs.log[1] = [call |-> "set_qtype", args |-> <<qs.result.qtype>>]
             /\ \A i \in 2..Len(qs.log) : qs.log[i].call # "set_qtype"
             /\ \A i \in 1..Len(qs.log) :
                    /\ qs.log[i].call = "set_key" => i = 2
                    /\ qs.log[i].call \in {"handler", "set_answer", "set_error"} =>
                           /\ i >= 3
                           /\ qs.log[2] = [call |-> "set_key", args |-> <<qs.result.qkey>>]

\* A handler was called and its answer set, after set_qtype and set_key
C10_Witness ==
    /\ HandlerReturned
    /\ Len(qs.log) = 4
    /\ qs.log[3].call = "handler"
    /\ qs.log[4].call = "set_answer"

-----------------------------------------------------------------------------
(* Claims about make_response_list *)

\* The answers of a list of answers, in order
AnswersOf(rl) == [i \in 1..Len(rl) |-> rl[i].answer]

\* The number of source articles of an answer: the mentions of its bucket
NumSources(a) == Len(Get(rd, a))

\* The cutoff condition, on the answers sorted by final score
CutoffApplies ==
    /\ Len(resp.ranked) >= 5
    /\ NumSources(resp.ranked[5].answer) > 1

\* C11: with the answers sorted by final score, if there are at least 5
\* answers and the fifth has more than one source, every answer with exactly
\* one source is removed and the others are kept in order; otherwise the
\* cutoff removes no answer. (What is returned is the first 20 of the rest.)
C11_CutoffOnFifthAnswer ==
    resp.done =>
        LET order == AnswersOf(resp.ranked)
            rest == IF CutoffApplies
                    THEN SelectSeq(order, LAMBDA a : NumSources(a) # 1)
                    ELSE order
        IN  AnswersOf(resp.out) = SubSeq(rest, 1, IF Len(rest) < 20 THEN Len(rest) ELSE 20)

\* The cutoff applies and removes an answer that ranks among the first four
C11_Witness ==
    /\ resp.done
    /\ CutoffApplies
    /\ \E i \in 1..4 : NumSources(resp.ranked[i].answer) = 1
    /\ \A i \in 1..Len(resp.out) : Len(Get(rd, resp.out[i].answer)) > 1
    /\ Len(resp.out) < Len(rd)

\* The mentions of the bucket of an answer
MentionsOf(a) == {Get(rd, a)[i].val : i \in 1..Len(Get(rd, a))}

\* C12: the returned list has at most 20 answers, each with at most 5
\* sources; the sources of an answer are mentions of its bucket, ordered by
\* timestamp descending, and no mention left out is newer than one returned;
\* the answers are in non-increasing order of final score.
C12_BoundedAndOrdered ==
    resp.done =>
        /\ Len(resp.out) <= 20
        /\ \A i \in 1..(Len(resp.out) - 1) :
               ~FloatLess(resp.scores[resp.out[i].answer],
                          resp.scores[resp.out[i + 1].answer])
        /\ \A i \in 1..Len(resp.out) :
               LET a == resp.out[i].answer
                   src == resp.out[i].sources
                   shown == {src[n] : n \in 1..Len(src)}
               IN  /\ HasKey(rd, a)
                   /\ Len(src) <= 5
                   /\ Len(src) = (IF Len(Get(rd, a)) < 5 THEN Len(Get(rd, a)) ELSE 5)
                   /\ Cardinality(shown) = Len(src)
                   /\ shown \subseteq MentionsOf(a)
                   /\ \A n \in 1..(Len(src) - 1) : src[n].timestamp >= src[n + 1].timestamp
                   /\ \A m \in MentionsOf(a) \ shown :
                          \A n \in 1..Len(src) : m.timestamp <= src[n].timestamp

\* More than 20 buckets, 20 answers returned, one of them from a bucket of
\* more than 5 mentions, and two answers of different final score
C12_Witness ==
    /\ resp.done
    /\ Len(rd) > 20
    /\ Len(resp.out) = 20
    /\ \E i \in 1..Len(resp.out) :
           /\ Len(Get(rd, resp.out[i].answer)) > 5
           /\ Len(resp.out[i].sources) = 5
    /\ \E i \in 1..(Len(resp.out) - 1) :
           FloatLess(resp.scores[resp.out[i + 1].answer],
                     resp.scores[resp.out[i].answer])

\* The words of a text, lowercased
WordsOf(t) == [n \in 1..Len(Split(t)) |-> Lower(Split(t)[n])]

\* One text contains the other on word boundaries
WordsWithin(a, b) ==
    \E n \in 0..(Len(WordsOf(b)) - Len(WordsOf(a))) :
        SubSeq(WordsOf(b), n + 1, n + Len(WordsOf(a))) = WordsOf(a)

CrossingTexts(a, b) == WordsWithin(a, b) \/ WordsWithin(b, a)

\* A text holds an exception-marker word
HasMarker(t) ==
    \E n \in 1..Len(WordsOf(t)) : \E m \in 1..Len(ExMarkers) : WordsOf(t)[n] = ExMarkers[m]

\* The number of crossing partners of the i-th answer in mention-weight
\* order, among the answers after it up to the j-th
CrossCount(i, j) ==
    Cardinality({n \in (i + 1)..j : CrossingTexts(resp.rl[i], resp.rl[n])})

\* A counted pair added the bonus to the score of answer k, with +=
Gained(e, k, bonus) == e.after[k] = FloatAdd(e.before[k], bonus)

\* A counted pair left the score of answer k as it was
Kept(e, k) == e.after[k] = e.before[k]

\* mention_weight(k) * 0.20 / c and mention_weight(k) * 0.35
Decayed(k, c) ==
    FloatOver(FloatTimes(resp.mention_weights[k], CROSS_MENTION_FACTOR), c)

Marked(k) == FloatTimes(resp.mention_weights[k], EX_MENTION_FACTOR)

\* The counted pairs
Events == {resp.events[n] : n \in 1..Len(resp.events)}

\* C13: for a counted crossing pair (i before j in mention-weight order)
\* where neither text holds a marker, the score of i grows by
\* mention_weight(j) * 0.20 / c and the score of j by
\* mention_weight(i) * 0.20 / c, c being the number of crosses found for i
\* up to and including this pair; no other score changes.
C13_SymmetricCrossBonus ==
    resp.done =>
        \A e \in Events :
            (~HasMarker(e.ri) /\ ~HasMarker(e.rj)) =>
                LET c == CrossCount(e.i, e.j)
                IN  /\ e.i < e.j
                    /\ e.ri = resp.rl[e.i] /\ e.rj = resp.rl[e.j]
                    /\ CrossingTexts(e.ri, e.rj)
                    /\ Gained(e, e.ri, Decayed(e.rj, c))
                    /\ Gained(e, e.rj, Decayed(e.ri, c))
                    /\ \A k \in DOMAIN e.before \ {e.ri, e.rj} : Kept(e, k)

\* A pair without markers that is the third cross or later of its first
\* answer, the two answers having different mention weights
C13_Witness ==
    /\ resp.done
    /\ \E e \in Events :
           /\ ~HasMarker(e.ri) /\ ~HasMarker(e.rj)
           /\ CrossCount(e.i, e.j) >= 3
           /\ resp.mention_weights[e.ri] # resp.mention_weights[e.rj]
           /\ FloatLess(e.before[e.ri], e.after[e.ri])
           /\ FloatLess(e.before[e.rj], e.after[e.rj])

\* A counted pair of which exactly one text holds a marker: the side with
\* the marker (with) and the other side (without)
MarkerPairs ==
    {[e |-> e, with |-> e.ri, without |-> e.rj] :
        e \in {x \in Events : HasMarker(x.ri) /\ ~HasMarker(x.rj)}}
    \cup
    {[e |-> e, with |-> e.rj, without |-> e.ri] :
        e \in {x \in Events : HasMarker(x.rj) /\ ~HasMarker(x.ri)}}

\* C14 as stated: for a crossing pair of which exactly one text holds a
\* marker, the score of the side with the marker grows by exactly
\* mention_weight(other) * 0.35, in place of the 0.20 / c bonus, and the
\* score of the other side does not change.
C14_MarkerBonusInPlace ==
    resp.done =>
        \A p \in MarkerPairs :
            /\ Gained(p.e, p.with, Marked(p.without))
            /\ Kept(p.e, p.without)

\* C14 as the code has it: the side with the marker gains
\* mention_weight(other) * 0.35 and, in addition, its ordinary bonus
\* mention_weight(other) * 0.20 / c (the 0.35 first when it is the earlier
\* answer of the pair, the 0.20 / c first when it is the later one); the
\* score of the other side does not change, nor does any third score.
C14_MarkerBonusOnTop ==
    resp.done =>
        \A p \in MarkerPairs :
            LET c == CrossCount(p.e.i, p.e.j)
                before == p.e.before[p.with]
            IN  /\ p.e.after[p.with]
                       = (IF p.with = p.e.ri
                          THEN FloatAdd(FloatAdd(before, Marked(p.without)),
                                        Decayed(p.without, c))
                          ELSE FloatAdd(FloatAdd(before, Decayed(p.without, c)),
                                        Marked(p.without)))
                /\ Kept(p.e, p.without)
                /\ \A k \in DOMAIN p.e.before \ {p.with, p.without} : Kept(p.e, k)

\* Marker pairs in both orders, one of them a second cross or later
C14_Witness ==
    /\ resp.done
    /\ \E p \in MarkerPairs : p.with = p.e.ri /\ resp.mention_weights[p.without] # <<>>
    /\ \E p \in MarkerPairs :
           /\ p.with = p.e.rj
           /\ CrossCount(p.e.i, p.e.j) >= 2
           /\ resp.mention_weights[p.without] # <<>>

\* The pairs (i, j), i before j in mention-weight order, whose texts cross
CrossingPairs ==
    {ij \in (1..Len(resp.rl)) \X (1..Len(resp.rl)) :
        ij[1] < ij[2] /\ CrossingTexts(resp.rl[ij[1]], resp.rl[ij[2]])}

\* C15: for each answer i as the earlier element of a pair, the pairs that
\* are counted are its first 5 crossing partners j > i, in order; the scores
\* start from mention weight plus length weight and change only by the
\* counted pairs, so a partner after the fifth neither changes the score of
\* i nor receives a bonus from i in the pass of i.
C15_AtMostFiveCrosses ==
    resp.done =>
        LET n == Len(resp.events)
        IN  /\ {<<e.i, e.j>> : e \in Events}
                   = {ij \in CrossingPairs : CrossCount(ij[1], ij[2]) <= 5}
            /\ \A e \in Events : e.crosses = CrossCount(e.i, e.j) /\ e.crosses <= 5
            /\ \A a, b \in 1..n :
                   a < b =>
                       \/ resp.events[a].i < resp.events[b].i
                       \/ /\ resp.events[a].i = resp.events[b].i
                          /\ resp.events[a].j < resp.events[b].j
            /\ \A a \in 1..(n - 1) : resp.events[a + 1].before = resp.events[a].after
            /\ n > 0 => resp.events[n].after = resp.scores
            /\ \A k \in DOMAIN resp.scores :
                   (IF n > 0 THEN resp.events[1].before[k] ELSE resp.scores[k])
                       = FloatAdd(resp.mention_weights[k], length_weight(k))

\* An answer with more than 5 crossing partners after it
C15_Witness ==
    /\ resp.done
    /\ \E ij \in CrossingPairs : CrossCount(ij[1], ij[2]) > 5
    /\ \E e \in Events : e.crosses = 5

\* The number of mentions of bucket b that sort before its n-th mention,
\* newest first, mentions of one timestamp in insertion order
NewerThan(b, n) ==
    Cardinality({j \in 1..Len(b) : b[j].val.timestamp > b[n].val.timestamp})
        + Cardinality({j \in 1..(n - 1) : b[j].val.timestamp = b[n].val.timestamp})

\* The article ids of the 5 newest mentions of bucket b, and of the others
NewestIds(b) == {b[n].key : n \in {j \in 1..Len(b) : NewerThan(b, j) < 5}}
OlderIds(b) == {b[n].key : n \in 1..Len(b)} \ NewestIds(b)

\* Bucket b without the mentions of the articles ids
Without(b, ids) == SelectSeq(b, LAMBDA m : m.key \notin ids)

\* The n-th newest mention of bucket b
NthNewest(b, n) == b[CHOOSE j \in 1..Len(b) : NewerThan(b, j) = n - 1].val

\* The whole days from the day of a mention to Now, 0 for a mention dated
\* after Now
DaysOld(a) == IF a.timestamp > Now THEN 0 ELSE Now - a.timestamp

\* The contribution of a mention by its age in whole days
Contribution(a) == AgeDecayTable[DaysOld(a) + 1]

\* The sum of the contributions of the n newest mentions of bucket b, added
\* one by one from the newest on
RECURSIVE Total(_, _)
Total(b, n) ==
    IF n = 0 THEN <<>> ELSE FloatAdd(Total(b, n - 1), Contribution(NthNewest(b, n)))

\* C16: the mention weight of a bucket is the sum of the contributions of
\* its (at most) 5 newest mentions, divided by e exactly when the bucket has
\* one mention; it is the same without any of the older mentions; a mention
\* dated in the future contributes what a mention of age 0 contributes, and
\* contributions do not grow with the age in whole days.
C16_FiveNewestMentions ==
    resp.done =>
        /\ \A i \in 1..Len(rd) :
               LET b == rd[i].val
                   newest == Without(b, OlderIds(b))
                   total == Total(b, Len(newest))
               IN  /\ Len(newest) <= 5
                   /\ resp.mention_weights[rd[i].key]
                          = (IF Len(b) = 1
                             THEN SingleMentionTable[DaysOld(b[1].val) + 1]
                             ELSE total)
                   /\ Len(b) = 1 =>
                          Millionths(FloatTimes(resp.mention_weights[rd[i].key], MathE))
                              - Millionths(total) \in {-1, 0, 1}
                   /\ total # <<>>
                   /\ \A ids \in SUBSET OlderIds(b) :
                          mention_weight(Without(b, ids)) = resp.mention_weights[rd[i].key]
                   /\ \A n \in 1..Len(b) :
                          b[n].val.timestamp > Now =>
                              MentionValue(b[n].val)
                                  = MentionValue([uuid |-> b[n].val.uuid, timestamp |-> Now])
        /\ \A x \in 1..(Len(AgeDecayTable) - 1) :
               ~FloatLess(AgeDecayTable[x], AgeDecayTable[x + 1])

\* A bucket of more than 5 mentions, one of the newest dated in the future,
\* and a bucket of exactly one mention
C16_Witness ==
    /\ resp.done
    /\ \E i \in 1..Len(rd) :
           /\ OlderIds(rd[i].val) # {}
           /\ \E n \in 1..Len(rd[i].val) :
                  /\ rd[i].val[n].val.timestamp > Now
                  /\ rd[i].val[n].key \in NewestIds(rd[i].val)
    /\ \E i \in 1..Len(rd) : Len(rd[i].val) = 1

-----------------------------------------------------------------------------
(* Claims about append_answers and append_names *)

\* The rows consumed so far whose normalized text is k and whose article is u
RowsFor(k, u) ==
    {n \in 1..Len(query) :
        correct_spaces(query[n].text) = k /\ query[n].article.id = u}

\* The (text, article id) pairs that rd holds a mention for
Held ==
    UNION {{<<rd[i].key, rd[i].val[n].key>> : n \in 1..Len(rd[i].val)} : i \in 1..Len(rd)}

\* C18: after append_answers, a bucket holds at most one mention per article
\* id; the mention held for a text and an article id is the one of the last
\* row with that normalized text and that id; and every row's text and id
\* has its mention, so rows of other ids or other texts overwrite nothing.
C18_OneMentionPerArticle ==
    /\ \A i \in 1..Len(rd) :
           \A m, n \in 1..Len(rd[i].val) : m # n => rd[i].val[m].key # rd[i].val[n].key
    /\ Held = {<<correct_spaces(query[n].text), query[n].article.id>> : n \in 1..Len(query)}
    /\ \A i \in 1..Len(rd) :
           \A n \in 1..Len(rd[i].val) :
               LET rows == RowsFor(rd[i].key, rd[i].val[n].key)
                   last == CHOOSE x \in rows : \A y \in rows : y <= x
               IN  /\ rows # {}
                   /\ rd[i].val[n].val = ArticleDescriptor(query[last])

\* A later row with the text of an earlier one, spaced differently, and the
\* same article id but another descriptor; and a row of another article
C18_Witness ==
    /\ \E m, n \in 1..Len(query) :
           /\ m < n
           /\ query[m].text # query[n].text
           /\ correct_spaces(query[m].text) = correct_spaces(query[n].text)
           /\ query[m].article.id = query[n].article.id
           /\ query[m].article # query[n].article
    /\ \E m, n \in 1..Len(query) : query[m].article.id # query[n].article.id

\* The article ids of the rows consumed so far whose normalized text is k
ArticlesFor(k) ==
    {query[n].article.id : n \in {x \in 1..Len(query) : correct_spaces(query[x].text) = k}}

\* C20 as stated: no bucket of the bucket table holds more than 5 mentions,
\* however many rows with distinct article ids were appended for its text.
C20_AtMostFiveMentions ==
    \A i \in 1..Len(rd) : Len(rd[i].val) <= 5

\* C20 as the code has it: append_answers retains every mention: a bucket
\* holds as many mentions as there were distinct article ids among the rows
\* appended for its text, be they more than 5.
C20_EveryArticleRetained ==
    \A i \in 1..Len(rd) : Len(rd[i].val) = Cardinality(ArticlesFor(rd[i].key))

\* Seven rows of one text from seven articles: a bucket of seven mentions
C20_Witness ==
    /\ Len(query) = 7
    /\ \E i \in 1..Len(rd) :
           /\ Cardinality(ArticlesFor(rd[i].key)) = 7
           /\ Len(rd[i].val) > 5

\* The article ids that rd holds a mention of, in any bucket
HeldArticles ==
    UNION {{rd[i].val[n].key : n \in 1..Len(rd[i].val)} : i \in 1..Len(rd)}

\* The key under which the bucket of the key k of nk.pre is found after the
\* row: k itself, or the name of the row when k was renamed
KeyAfter(k) == IF HasKey(rd, k) THEN k ELSE nk.name

\* C19: after append_names on an initially empty table, the article ids over
\* all buckets are those of the rows consumed; the key resolved for a row
\* is never None and the row's mention is in its bucket; and every mention
\* held before a row is held after it, under the same key or, when the key
\* was renamed, under the new one, unchanged unless the row itself is a
\* mention of the same article in that bucket.
C19_NoMentionLost ==
    /\ HeldArticles = {seen[n].uuid : n \in 1..Len(seen)}
    /\ nk.called =>
           LET last == seen[Len(seen)]
           IN  /\ nk.ret # None
               /\ HasKey(rd, nk.ret)
               /\ HasKey(Get(rd, nk.ret), last.uuid)
               /\ Get(Get(rd, nk.ret), last.uuid) = last
               /\ \A j \in 1..Len(nk.pre) :
                      LET k == nk.pre[j].key
                          old == nk.pre[j].val
                      IN  /\ HasKey(rd, KeyAfter(k))
                          /\ ~HasKey(rd, k) => nk.ret = nk.name
                          /\ \A n \in 1..Len(old) :
                                 /\ HasKey(Get(rd, KeyAfter(k)), old[n].key)
                                 /\ (KeyAfter(k) # nk.ret \/ old[n].key # last.uuid)
                                        => Get(Get(rd, KeyAfter(k)), old[n].key) = old[n].val

\* A row renamed a key whose bucket held a mention of another article than
\* the row's: the new bucket holds both
C19_Witness ==
    /\ nk.called
    /\ \E j \in 1..Len(nk.pre) :
           /\ ~HasKey(rd, nk.pre[j].key)
           /\ \E n \in 1..Len(nk.pre[j].val) : nk.pre[j].val[n].key # seen[Len(seen)].uuid
           /\ Len(Get(rd, nk.name)) >= 2

-----------------------------------------------------------------------------
(* Claims about query_word *)

\* The rows of the related-words list whose stem is not the queried stem
KeptRows == {i \in 1..Len(wq.rel) : wq.rel[i].stem # wq.stem}

\* The n-th of them
KeptRow(n) == CHOOSE i \in KeptRows : Cardinality({j \in KeptRows : j <= i}) = n

\* C21: query_word for a stem whose article count is zero returns count 0
\* and no answers without calling the related-words lookup; for a non-zero
\* count it calls the lookup once and returns the (stem, category) of every
\* row returned, in order, except the rows whose stem is the queried stem.
C21_ZeroCountSkipsLookup ==
    wq.called =>
        /\ wq.ret.count = wq.acnt
        /\ wq.acnt = 0 => wq.ret.answers = <<>> /\ wq.ret.lookups = 0
        /\ wq.acnt # 0 =>
               /\ wq.ret.lookups = 1
               /\ Len(wq.ret.answers) = Cardinality(KeptRows)
               /\ \A n \in 1..Len(wq.ret.answers) :
                      wq.ret.answers[n]
                          = [stem |-> wq.rel[KeptRow(n)].stem, cat |-> wq.rel[KeptRow(n)].cat]

\* A call with a non-zero count whose lookup returns the queried stem
\* between two other rows
C21_Witness ==
    /\ wq.called
    /\ wq.acnt # 0
    /\ Len(wq.rel) = 3
    /\ wq.rel[2].stem = wq.stem
    /\ Len(wq.ret.answers) = 2
    /\ wq.ret.answers[1] # wq.ret.answers[2]

-----------------------------------------------------------------------------
(* Claims about launch_search *)

\* The number of stems of the tokens before token i
StemsBefore(i) ==
    Cardinality({km \in (1..(i - 1)) \X (1..2) : km[2] <= ls.stems[km[1]]})

\* The number of stems of all tokens
StemsInAll == StemsBefore(Len(ls.stems) + 1)

\* The service returned as many weights as there are stems, and not none
WeightsMatch ==
    /\ ls.called
    /\ ls.service.has_weights
    /\ ls.service.weights # <<>>
    /\ Len(ls.service.weights) = StemsInAll

\* C22: when the service returns a non-empty weights list as long as the
\* number of stems, the output has one weight per token, in token order; a
\* token of n >= 1 stems has the mean of its own n consecutive weights, the
\* slices following one another in token order from the first weight to the
\* last; a token without stems has weight 0.
C22_MeanOfOwnWeights ==
    WeightsMatch =>
        /\ ls.ret.kind = "returns"
        /\ Len(ls.ret.value.weights) = Len(ls.stems)
        /\ \A i \in 1..Len(ls.stems) :
               LET n == ls.stems[i]
                   own == SubSeq(ls.service.weights, StemsBefore(i) + 1, StemsBefore(i) + n)
               IN  /\ n = 0 => ls.ret.value.weights[i] = <<0, 1>>
                   /\ n >= 1 =>
                          /\ Len(own) = n
                          /\ ls.ret.value.weights[i] = <<SumSeq(own), n>>

-----------------------------------------------------------------------------
(* Claims about add_name_to_register *)

\* C23: add_name_to_register called with a name for which no title is found
\* and with all_names False leaves the register as it was: no key is added,
\* removed or renamed and no value is changed.
C23_NoTitleLeavesRegister ==
    (rc.op = "name" /\ rc.found = "" /\ ~rc.all_names) => register = rc.pre

\* The key that the last add_name_to_register call resolved its name to
ResolvedKey == name_key_to_update(rc.pre, rc.name).ret

\* The last call was add_name_to_register with a name that was no key and
\* that resolved to a key registered before
C24_Case ==
    /\ rc.op = "name"
    /\ ~HasKey(rc.pre, rc.name)
    /\ HasKey(rc.pre, ResolvedKey)

\* C24 as stated: when the new name resolves to an existing key, the
\* existing key keeps its previous kind and title.
C24_ExistingEntryKept ==
    C24_Case => Get(register, ResolvedKey) = Get(rc.pre, ResolvedKey)

\* C24 as the code has it: a name that is a key already changes nothing;
\* when a new name resolves to an existing key, the entry of that key is
\* replaced by kind "name" with the title found, or with no title when none
\* was found and all_names is set, and is kept only when no title was found
\* and all_names is not set; the other entries stay as they were.
C24_ExistingEntryReplaced ==
    /\ (rc.op = "name" /\ HasKey(rc.pre, rc.name)) => register = rc.pre
    /\ C24_Case =>
           /\ Keys(register) = Keys(rc.pre)
           /\ Get(register, ResolvedKey)
                  = (IF rc.found # "" THEN [kind |-> "name", title |-> rc.found]
                     ELSE IF rc.all_names THEN [kind |-> "name", title |-> None]
                     ELSE Get(rc.pre, ResolvedKey))
           /\ \A i \in 1..Len(rc.pre) :
                  rc.pre[i].key # ResolvedKey => register[i] = rc.pre[i]

\* A name without middle tokens resolved to a key with a title, which lost
\* it; before that, a name with an abbreviated middle token had resolved to
\* the same key
C24_Witness ==
    /\ C24_Case
    /\ Middle(Split(rc.name)) = <<>>
    /\ Middle(Split(ResolvedKey)) # <<>>
    /\ Get(rc.pre, ResolvedKey) = [kind |-> "name", title |-> "forsetaframbjodandi"]
    /\ Get(register, ResolvedKey) = [kind |-> "name", title |-> None]

-----------------------------------------------------------------------------
(* Claims about lookup_best_word and declension_answer_for_word *)

\* The word asked about, or its capitalized form, has a meaning in the
\* database
InDatabase ==
    \E w \in DbWords :
        /\ dw.db[w] > 0
        /\ w = dw.word \/ w = capitalize(dw.word)

\* C25: lookup_best_word returns the four case forms whenever the word or
\* its capitalized form is found in the database and None only when neither
\* is found; declension_answer_for_word answers "not found" only for words
\* that are not in the database, and otherwise returns the four forms and
\* sets the query type to "Declension".
C25_FoundWordsAreDeclined ==
    dw.called =>
        IF InDatabase
        THEN /\ dw.ret.forms # None
             /\ dw.ret.qtype = "Declension"
             /\ dw.ret.answer # NotInBin(dw.word)
        ELSE /\ dw.ret.forms = None
             /\ dw.ret.answer = NotInBin(dw.word)

-----------------------------------------------------------------------------
(* Claims about the corpus export loop *)

\* The smaller of two numbers
Min(a, b) == IF a <= b THEN a ELSE b

\* How often tree t is in the output file
TimesWritten(t) == Cardinality({i \in 1..Len(corpus.file) : corpus.file[i] = t})

\* C26: when main returns, every tree consumed from the generator has been
\* written to the output file exactly once, and the number of trees written
\* and the reported total equal min(num_sent, number of trees the generator
\* yields), also when the generator is exhausted before num_sent is reached
\* and the last batch holds fewer than MAX_BATCH trees.
C26_EveryTreeWrittenOnce ==
    (corpus.started /\ corpus.returned) =>
        /\ \A t \in 1..corpus.consumed : TimesWritten(t) = 1
        /\ Len(corpus.file) = Min(corpus.num_sent, corpus.ntrees)
        /\ corpus.total = Min(corpus.num_sent, corpus.ntrees)

=============================================================================
